---- MODULE Spec2Model ----
(***************************************************************************)
(* Model of the NMF hierarchy builder (NMFhierarchy.py), of the integrity  *)
(* checker and the grouping by recency (nmf_analyzer.py), of the           *)
(* Timeseries (timeseries.py) and of the paginated hub call                *)
(* (hub_connector.py).                                                     *)
(*                                                                         *)
(* Python objects are heap cells addressed by a reference                  *)
(* <<class, generation, id>>: the generation is the number of the          *)
(* clone_hierarchy run that constructed the object, so two objects built   *)
(* for the same hub id by two runs are different objects.  A Python dict   *)
(* is a record [keys, val]: keys is the insertion order, val the mapping.  *)
(* None is the integer -1 where ids are expected (hub ids are naturals)    *)
(* and the string "<None>" where strings are expected.                     *)
(* Fields that no modelled operation reads (name, tag, serial number,      *)
(* product code and name) are left out of the records.                     *)
(***************************************************************************)
EXTENDS Integers, Sequences, FiniteSets, TLC

VARIABLES
    hub,                  \* what the hub returns: [nodes, instrumentations] (lists of records)
    pc,                   \* position in NMFhierarchy.__init__ / clone_hierarchy
    clones,               \* number of clone_hierarchy runs started (object generation)
    nodes,                \* local dict of clone_hierarchy: node id -> fetched node record
    instrumentations,     \* local dict of clone_hierarchy: instr id -> fetched instr record
    assets,               \* local dict of clone_hierarchy: asset id -> fetched asset summary
    nmf_nodes,            \* registry dict: id -> NMFnode reference
    nmf_instrumentations, \* registry dict: id -> NMFinstrumentation reference
    nmf_assets,           \* registry dict: id -> NMFasset reference
    node_obj,             \* heap: NMFnode reference -> fields
    instr_obj,            \* heap: NMFinstrumentation reference -> fields
    asset_obj,            \* heap: NMFasset reference -> fields
    _output_lines,        \* nmf_analyzer._output_lines
    print_output,         \* nmf_analyzer.print_output
    stdout,               \* lines printed by the last check_nmf_integrity call
    ret,                  \* what the last check_nmf_integrity call returned
    repeated,             \* whether the last check_nmf_integrity call followed an earlier one
    call_stack,           \* the for loops of a check_nmf_integrity call in progress
    hub_values,           \* what the hub holds besides the hierarchy: [latest, series, pages]
    groups,               \* what the last group_instr_by_latest_values call returned
    ts,                   \* the Timeseries object of the caller, or how its creation ended
    grouped,              \* what the last get_grouped_value_keys call returned
    hub_calls,            \* the hub calls issued by the last operation, in order
    next_url,             \* local of call_hub_pagination
    all_results,          \* local of call_hub_pagination
    pag_pc                \* position in call_hub_pagination

vars == <<hub, pc, clones, nodes, instrumentations, assets, nmf_nodes,
          nmf_instrumentations, nmf_assets, node_obj, instr_obj, asset_obj,
          _output_lines, print_output, stdout, ret, repeated, call_stack,
          hub_values, groups, ts, grouped, hub_calls, next_url, all_results, pag_pc>>

hierarchy_vars == <<clones, nodes, instrumentations, assets, nmf_nodes,
                    nmf_instrumentations, nmf_assets, node_obj, instr_obj, asset_obj>>

analyzer_vars == <<_output_lines, print_output, stdout, ret, repeated, call_stack>>

\* Latest values, time series and paginated calls: state that neither
\* clone_hierarchy nor check_nmf_integrity touches.
values_vars == <<hub_values, groups, ts, grouped, hub_calls, next_url, all_results, pag_pc>>

-----------------------------------------------------------------------------
(* Values *)

None == -1

NoneStr == "<None>"

NoneRef == <<"None", 0, 0>>

\* An int stored where the declaration expects an object reference.
IntVal(i) == <<"int", 0, i>>

NodeRef(g, id) == <<"NMFnode", g, id>>

InstrRef(g, id) == <<"NMFinstrumentation", g, id>>

AssetRef(g, id) == <<"NMFasset", g, id>>

\* The raw asset summary (a dict) that instr["assets"] holds before linking.
AssetDict(id) == <<"dict", 0, id>>

RefId(r) == r[3]

Range(s) == {s[i] : i \in 1..Len(s)}

-----------------------------------------------------------------------------
(* Python dicts: insertion-ordered mappings *)

EmptyDict == [keys |-> <<>>, val |-> <<>>]

DictHas(d, k) == k \in DOMAIN d.val

\* d[k] = v : a new key goes last, an existing key keeps its position.
DictSet(d, k, v) ==
    IF DictHas(d, k)
    THEN [d EXCEPT !.val = [x \in DOMAIN d.val |-> IF x = k THEN v ELSE d.val[x]]]
    ELSE [keys |-> Append(d.keys, k),
          val  |-> [x \in (DOMAIN d.val) \cup {k} |-> IF x = k THEN v ELSE d.val[x]]]

\* d.values() in iteration order
DictValues(d) == [i \in 1..Len(d.keys) |-> d.val[d.keys[i]]]

DictKeySet(d) == DOMAIN d.val

-----------------------------------------------------------------------------
(* Fetch: NMFhierarchy.get_node_info / get_instrumentation_info *)

\* The dict built from the node records of the paginated response, in order.
RECURSIVE NodeInfoDict(_, _)
NodeInfoDict(response, d) ==
    IF response = <<>> THEN d
    ELSE LET node == Head(response)
         IN NodeInfoDict(Tail(response),
                DictSet(d, node.id,
                    [type             |-> node.type,
                     id               |-> node.id,
                     parent_id        |-> node.parent_id,
                     instrumentations |-> node.instrumentations]))

\* The asset summaries embedded in one instrumentation record.
AssetList(instr) == [i \in 1..Len(instr.assets) |-> [id |-> instr.assets[i]]]

RECURSIVE AddAssets(_, _)
AddAssets(asset_list, d) ==
    IF asset_list = <<>> THEN d
    ELSE AddAssets(Tail(asset_list), DictSet(d, Head(asset_list).id, Head(asset_list)))

\* The two dicts (instrumentations, assets) built from the instrumentation records.
RECURSIVE InstrumentationInfo(_, _, _)
InstrumentationInfo(response, di, da) ==
    IF response = <<>> THEN <<di, da>>
    ELSE LET instr == Head(response)
         IN InstrumentationInfo(Tail(response),
                DictSet(di, instr.id,
                    [type           |-> instr.type,
                     id             |-> instr.id,
                     assets         |-> AssetList(instr),
                     specifications |-> instr.specifications,
                     value_keys     |-> instr.value_keys,
                     thresholds     |-> instr.thresholds]),
                AddAssets(AssetList(instr), da))

get_node_info ==
    /\ pc = "clone_hierarchy"
    /\ nodes' = NodeInfoDict(hub.nodes, EmptyDict)
    /\ pc' = "nodes_fetched"
    /\ UNCHANGED <<hub, clones, instrumentations, assets, nmf_nodes, nmf_instrumentations,
                   nmf_assets, node_obj, instr_obj, asset_obj>>
    /\ UNCHANGED analyzer_vars
    /\ UNCHANGED values_vars

get_instrumentation_info ==
    /\ pc = "nodes_fetched"
    /\ LET r == InstrumentationInfo(hub.instrumentations, EmptyDict, EmptyDict)
       IN /\ instrumentations' = r[1]
          /\ assets' = r[2]
    /\ pc' = "instrumentations_fetched"
    /\ UNCHANGED <<hub, clones, nodes, nmf_nodes, nmf_instrumentations,
                   nmf_assets, node_obj, instr_obj, asset_obj>>
    /\ UNCHANGED analyzer_vars
    /\ UNCHANGED values_vars

-----------------------------------------------------------------------------
(* NMFhierarchy.create_nmf_objects *)

\* thresholds = { k : [(name, threshold_type, value) for t in instr["thresholds"]
\*                     if t.get("key") == k] for k in instr.get("value_keys", []) }
ThresholdTriples(thresholds, k) ==
    LET Keep(t) == t.key = k
        Triple(t) == <<t.name, t.threshold_type, t.value>>
        sel == SelectSeq(thresholds, Keep)
    IN [i \in 1..Len(sel) |-> Triple(sel[i])]

\* The grouping wrongly driven by the threshold records: a declared value key
\* without a threshold record gets no entry.
RECURSIVE ThresholdDict_only_used(_, _, _)
ThresholdDict_only_used(value_keys, thresholds, d) ==
    IF value_keys = <<>> THEN d
    ELSE ThresholdDict_only_used(Tail(value_keys), thresholds,
             IF ThresholdTriples(thresholds, Head(value_keys)) = <<>> THEN d
             ELSE DictSet(d, Head(value_keys), ThresholdTriples(thresholds, Head(value_keys))))

RECURSIVE ThresholdDict(_, _, _)
ThresholdDict(value_keys, thresholds, d) ==
    IF value_keys = <<>> THEN d
    ELSE ThresholdDict(Tail(value_keys), thresholds,
             DictSet(d, Head(value_keys), ThresholdTriples(thresholds, Head(value_keys))))

NewNode(node) ==
    [type             |-> node.type,
     id               |-> node.id,
     subnodes         |-> <<>>,
     parent           |-> IF node.parent_id = None THEN NoneRef ELSE IntVal(node.parent_id),
     instrumentations |-> <<>>]

NewInstrumentation(instr) ==
    [type            |-> instr.type,
     id              |-> instr.id,
     primary_val_key |-> instr.specifications,
     value_keys      |-> instr.value_keys,
     parent          |-> NoneRef,
     assets          |-> [i \in 1..Len(instr.assets) |-> AssetDict(instr.assets[i].id)],
     thresholds      |-> ThresholdDict(instr.value_keys, instr.thresholds, EmptyDict),
     nodes           |-> <<>>]

NewAsset(asset_id) == [id |-> asset_id, instrumentations |-> <<>>]

\* Allocates one object per key of a fetched dict, in the dict's order: reg is the
\* registry, heap the objects of the class, ref[k] the new reference, new[k] the fields.
RECURSIVE CreateObjects(_, _, _, _, _)
CreateObjects(keys, reg, heap, ref, new) ==
    IF keys = <<>> THEN <<reg, heap>>
    ELSE LET k == Head(keys)
             r == ref[k]
         IN CreateObjects(Tail(keys), DictSet(reg, k, r),
                [x \in (DOMAIN heap) \cup {r} |-> IF x = r THEN new[k] ELSE heap[x]],
                ref, new)

create_nmf_objects ==
    /\ pc = "instrumentations_fetched"
    /\ LET g == clones
           RefN == [k \in DictKeySet(nodes) |-> NodeRef(g, k)]
           RefI == [k \in DictKeySet(instrumentations) |-> InstrRef(g, k)]
           RefA == [k \in DictKeySet(assets) |-> AssetRef(g, k)]
           NewN == [k \in DictKeySet(nodes) |-> NewNode(nodes.val[k])]
           NewI == [k \in DictKeySet(instrumentations) |->
                        NewInstrumentation(instrumentations.val[k])]
           NewA == [k \in DictKeySet(assets) |-> NewAsset(k)]
           rn == CreateObjects(nodes.keys, nmf_nodes, node_obj, RefN, NewN)
           ri == CreateObjects(instrumentations.keys, nmf_instrumentations, instr_obj, RefI, NewI)
           ra == CreateObjects(assets.keys, nmf_assets, asset_obj, RefA, NewA)
       IN /\ nmf_nodes' = rn[1]
          /\ node_obj' = rn[2]
          /\ nmf_instrumentations' = ri[1]
          /\ instr_obj' = ri[2]
          /\ nmf_assets' = ra[1]
          /\ asset_obj' = ra[2]
    /\ pc' = "objects_created"
    /\ UNCHANGED <<hub, clones, nodes, instrumentations, assets>>
    /\ UNCHANGED analyzer_vars
    /\ UNCHANGED values_vars

-----------------------------------------------------------------------------
(* NMFhierarchy.create_links *)

AppendTo(heap, r, fld, v) ==
    [heap EXCEPT ![r] = IF fld = "subnodes"
                        THEN [@ EXCEPT !.subnodes = Append(@, v)]
                        ELSE [@ EXCEPT !.instrumentations = Append(@, v)]]

\* parent_node = self.nmf_nodes.get(pid); the append happens when it is an NMFnode.
ParentResolves(reg, pid) == pid # None /\ DictHas(reg, pid)

\* The body of the first loop wrongly written with a subscript for the parent:
\* a parent id that is no key of the node registry raises the KeyError.
link_node_parent_required(node_id, fetched, reg_n, reg_i, heap) ==
    LET node     == fetched.val[node_id]
        pid      == node.parent_id
        nmf_node == reg_n.val[node_id]
        ids      == node.instrumentations
    IN IF pid # None /\ ~DictHas(reg_n, pid) THEN [heap |-> heap, err |-> "KeyError"]
       ELSE LET h1 == IF pid # None
                      THEN AppendTo(heap, reg_n.val[pid], "subnodes", nmf_node) ELSE heap
            IN IF \E i \in 1..Len(ids) : ~DictHas(reg_i, ids[i])
               THEN [heap |-> h1, err |-> "KeyError"]
               ELSE [heap |-> [h1 EXCEPT ![nmf_node].instrumentations =
                                   [i \in 1..Len(ids) |-> reg_i.val[ids[i]]]],
                     err |-> "none"]

\* The body of the first loop wrongly written with .get() for the
\* instrumentations: an id that is no key of the registry is skipped.
link_node_skip_missing(node_id, fetched, reg_n, reg_i, heap) ==
    LET node     == fetched.val[node_id]
        pid      == node.parent_id
        nmf_node == reg_n.val[node_id]
        h1 == IF pid # None /\ DictHas(reg_n, pid)
              THEN AppendTo(heap, reg_n.val[pid], "subnodes", nmf_node) ELSE heap
        Known(x) == DictHas(reg_i, x)
        ids == SelectSeq(node.instrumentations, Known)
    IN [heap |-> [h1 EXCEPT ![nmf_node].instrumentations =
                        [i \in 1..Len(ids) |-> reg_i.val[ids[i]]]],
        err |-> "none"]

\* The body of the first loop wrongly run while the objects are created, so that
\* a parent resolves only when its record came earlier in the response.
link_node_parent_seen(node_id, fetched, reg_n, reg_i, heap) ==
    LET node     == fetched.val[node_id]
        pid      == node.parent_id
        nmf_node == reg_n.val[node_id]
        Pos(k)   == CHOOSE i \in 1..Len(fetched.keys) : fetched.keys[i] = k
        h1 == IF pid # None /\ DictHas(fetched, pid) /\ Pos(pid) <= Pos(node_id)
              THEN AppendTo(heap, reg_n.val[pid], "subnodes", nmf_node) ELSE heap
        ids == node.instrumentations
    IN IF \E i \in 1..Len(ids) : ~DictHas(reg_i, ids[i])
       THEN [heap |-> h1, err |-> "KeyError"]
       ELSE [heap |-> [h1 EXCEPT ![nmf_node].instrumentations =
                           [i \in 1..Len(ids) |-> reg_i.val[ids[i]]]],
             err |-> "none"]

\* The body of the first loop (lines 80-89) for one node.  Returns [heap, err]:
\* err is "KeyError" when an instrumentation id of the node is not a key of the
\* instrumentation registry; what was linked before stays linked.
link_node(node_id, fetched, reg_n, reg_i, heap) ==
    LET node     == fetched.val[node_id]
        pid      == node.parent_id
        nmf_node == reg_n.val[node_id]
        h1 == IF ParentResolves(reg_n, pid)
              THEN AppendTo(heap, reg_n.val[pid], "subnodes", nmf_node)
              ELSE heap
        ids == node.instrumentations
    IN IF \E i \in 1..Len(ids) : ~DictHas(reg_i, ids[i])
       THEN [heap |-> h1, err |-> "KeyError"]
       ELSE [heap |-> [h1 EXCEPT ![nmf_node].instrumentations =
                           [i \in 1..Len(ids) |-> reg_i.val[ids[i]]]],
             err |-> "none"]

\* First loop (lines 79-89): stops at the first node that raises.
RECURSIVE LinkNodes(_, _, _, _, _)
LinkNodes(keys, fetched, reg_n, reg_i, heap) ==
    IF keys = <<>> THEN [heap |-> heap, err |-> "none"]
    ELSE LET r == link_node(Head(keys), fetched, reg_n, reg_i, heap)
         IN IF r.err # "none" THEN r
            ELSE LinkNodes(Tail(keys), fetched, reg_n, reg_i, r.heap)

\* Second loop (lines 92-94): every fetched instrumentation gets its asset objects.
RECURSIVE LinkInstrumentations(_, _, _, _, _)
LinkInstrumentations(keys, fetched, reg_i, reg_a, heap) ==
    IF keys = <<>> THEN heap
    ELSE LET instr_id  == Head(keys)
             instr     == fetched.val[instr_id]
             nmf_instr == reg_i.val[instr_id]
         IN LinkInstrumentations(Tail(keys), fetched, reg_i, reg_a,
                [heap EXCEPT ![nmf_instr].assets =
                     [i \in 1..Len(instr.assets) |-> reg_a.val[instr.assets[i].id]]])

\* The inner loop wrongly stopped after the first asset.
LinkAssetsOf_first_only(instr, as, heap) ==
    IF as = <<>> THEN [heap |-> heap, err |-> "none"]
    ELSE IF Head(as)[1] # "NMFasset" THEN [heap |-> heap, err |-> "AttributeError"]
    ELSE [heap |-> AppendTo(heap, Head(as), "instrumentations", instr), err |-> "none"]

\* Inner loop of lines 98-100 for one instrumentation.  An element of instr.assets
\* that is still a raw dict has no attribute "instrumentations".
RECURSIVE LinkAssetsOf(_, _, _)
LinkAssetsOf(instr, as, heap) ==
    IF as = <<>> THEN [heap |-> heap, err |-> "none"]
    ELSE IF Head(as)[1] # "NMFasset" THEN [heap |-> heap, err |-> "AttributeError"]
    ELSE LinkAssetsOf(instr, Tail(as), AppendTo(heap, Head(as), "instrumentations", instr))

\* Third loop (lines 98-100): over every instrumentation of the registry.
RECURSIVE LinkAssets(_, _, _)
LinkAssets(instrs, iheap, heap) ==
    IF instrs = <<>> THEN [heap |-> heap, err |-> "none"]
    ELSE LET r == LinkAssetsOf(Head(instrs), iheap[Head(instrs)].assets, heap)
         IN IF r.err # "none" THEN r ELSE LinkAssets(Tail(instrs), iheap, r.heap)

create_links ==
    /\ pc = "objects_created"
    /\ LET r1 == LinkNodes(nodes.keys, nodes, nmf_nodes, nmf_instrumentations, node_obj)
           h2 == LinkInstrumentations(instrumentations.keys, instrumentations,
                                      nmf_instrumentations, nmf_assets, instr_obj)
           r3 == LinkAssets(DictValues(nmf_instrumentations), h2, asset_obj)
       IN /\ node_obj' = r1.heap
          /\ IF r1.err # "none"
             THEN /\ pc' = r1.err
                  /\ UNCHANGED <<instr_obj, asset_obj>>
             ELSE /\ instr_obj' = h2
                  /\ asset_obj' = r3.heap
                  /\ pc' = IF r3.err # "none" THEN r3.err ELSE "built"
    /\ UNCHANGED <<hub, clones, nodes, instrumentations, assets, nmf_nodes,
                   nmf_instrumentations, nmf_assets>>
    /\ UNCHANGED analyzer_vars
    /\ UNCHANGED values_vars

-----------------------------------------------------------------------------
(* Getters of NMFhierarchy (lines 162-180) *)

\* [node for node in self.nmf_nodes.values() if node.type == "location"]
get_locations ==
    LET IsLocation(r) == node_obj[r].type = "location"
    IN SelectSeq(DictValues(nmf_nodes), IsLocation)

get_applications(location) ==
    LET IsApp(r) == node_obj[r].type \in {"water_abstraction", "water_distribution"}
    IN SelectSeq(node_obj[location].subnodes, IsApp)

get_modules(water_app) == node_obj[water_app].subnodes

get_instrumentations(module) == node_obj[module].instrumentations

get_assets(instrumentation) == instr_obj[instrumentation].assets

-----------------------------------------------------------------------------
(* nmf_analyzer: the report.  A call of print_indent is a record               *)
(* [msg, indent, alert]; msg is [t, subj, arg, at]: the text template, the     *)
(* str() of the element it names, the value key or type it names, and the     *)
(* time it names.                                                              *)

NoSubj == <<"", 0, "", "">>

\* NMFnode.__str__ : node(id, name, type)
StrNode(r) == <<"node", node_obj[r].id, node_obj[r].type, "">>

\* NMFinstrumentation.__str__ : instr(id, tag, type, primary_val_key)
StrInstr(r) == <<"instr", instr_obj[r].id, instr_obj[r].type, instr_obj[r].primary_val_key>>

Msg(t, subj, arg) == [t |-> t, subj |-> subj, arg |-> arg, at |-> None]

Call(msg, indent, alert) == [msg |-> msg, indent |-> indent, alert |-> alert]

Info(t, subj, arg, indent) == Call(Msg(t, subj, arg), indent, FALSE)

Alert(t, subj, arg, indent) == Call(Msg(t, subj, arg), indent, TRUE)

\* nmf_analyzer.print_indent: the line it prints (print_output) or collects.
print_indent(call, po) ==
    [indent |-> call.indent,
     prefix |-> IF call.alert THEN (IF po THEN "RED" ELSE "  WARNING: ") ELSE "",
     msg    |-> call.msg]

\* check_non_empty_elems wrongly returning True for an empty list.
check_non_empty_elems_always(elems) == TRUE

\* nmf_analyzer.check_non_empty_elems: the value it returns.
check_non_empty_elems(elems) == elems # <<>>

\* limits.get(kind) taken as found whenever the key has any threshold at all.
HasLimit_any_kind(instr, k, kind) ==
    LET th == instr_obj[instr].thresholds
        triples == IF DictHas(th, k) THEN th.val[k] ELSE <<>>
    IN triples # <<>>

\* limits = { type: (name, val) for (name, type, val) in instr.thresholds.get(k, {}) }
\* limits.get(kind, None) is truthy iff some triple of k has that kind.
HasLimit(instr, k, kind) ==
    LET th == instr_obj[instr].thresholds
        triples == IF DictHas(th, k) THEN th.val[k] ELSE <<>>
    IN \E i \in 1..Len(triples) : triples[i][2] = kind

\* The loop with the second check of a key written as an elif of the first.
RECURSIVE CheckThresholds_first_missing_only(_, _, _)
CheckThresholds_first_missing_only(instr, keys, indent) ==
    IF keys = <<>> THEN <<>>
    ELSE LET k == Head(keys)
         IN (IF ~HasLimit(instr, k, "upper")
             THEN <<Alert("no upper threshold", StrInstr(instr), k, indent)>>
             ELSE IF ~HasLimit(instr, k, "lower")
                  THEN <<Alert("no lower threshold", StrInstr(instr), k, indent)>>
                  ELSE <<>>)
            \o CheckThresholds_first_missing_only(instr, Tail(keys), indent)

\* The pressure/analysis loop (lines 222-229) over the value keys.
RECURSIVE CheckThresholds(_, _, _)
CheckThresholds(instr, keys, indent) ==
    IF keys = <<>> THEN <<>>
    ELSE LET k == Head(keys)
         IN (IF ~HasLimit(instr, k, "upper")
             THEN <<Alert("no upper threshold", StrInstr(instr), k, indent)>> ELSE <<>>)
            \o (IF ~HasLimit(instr, k, "lower")
                THEN <<Alert("no lower threshold", StrInstr(instr), k, indent)>> ELSE <<>>)
            \o CheckThresholds(instr, Tail(keys), indent)

\* check_instrumentation with the three general checks chained by elif.
check_instrumentation_elif(instr, indent) ==
    LET o  == instr_obj[instr]
        me == StrInstr(instr)
        vk == Range(o.value_keys)
    IN IF ~check_non_empty_elems(o.assets)
       THEN <<Alert("has no assets", me, "", indent)>>
       ELSE (IF o.type = "undefined"
             THEN <<Alert("has type undefined", me, "", indent)>>
             ELSE IF o.primary_val_key = NoneStr
                  THEN <<Alert("has no primary value key", me, "", indent)>>
                  ELSE IF o.value_keys = <<>>
                       THEN <<Alert("has no value keys", me, "", indent)>> ELSE <<>>)
         \o (IF o.type = "flow"
             THEN (IF "totalizer1" \notin vk
                   THEN <<Alert("flow has no value key", me, "totalizer1", indent)>>
                   ELSE <<>>)
               \o (IF "volumeflow" \notin vk
                   THEN <<Alert("flow has no value key", me, "volumeflow", indent)>>
                   ELSE IF ~HasLimit(instr, "volumeflow", "upper")
                        THEN <<Alert("flow has no upper threshold", me, "volumeflow", indent)>>
                        ELSE <<>>)
             ELSE <<>>)
         \o (IF o.type \in {"pressure", "analysis"}
             THEN <<Info("Checking thresholds", me, o.type, indent)>>
                  \o CheckThresholds(instr, o.value_keys, indent)
             ELSE <<>>)
         \o (IF o.type = "pump" /\ "individual_pump_on" \notin vk
             THEN <<Alert("pump has no value key", me, "individual_pump_on", indent)>>
             ELSE <<>>)

\* nmf_analyzer.check_instrumentation: the print_indent calls it makes, in order.
check_instrumentation(instr, indent) ==
    LET o  == instr_obj[instr]
        me == StrInstr(instr)
        vk == Range(o.value_keys)
    IN IF ~check_non_empty_elems(o.assets)
       THEN <<Alert("has no assets", me, "", indent)>>
       ELSE (IF o.type = "undefined"
             THEN <<Alert("has type undefined", me, "", indent)>> ELSE <<>>)
         \o (IF o.primary_val_key = NoneStr
             THEN <<Alert("has no primary value key", me, "", indent)>> ELSE <<>>)
         \o (IF o.value_keys = <<>>
             THEN <<Alert("has no value keys", me, "", indent)>> ELSE <<>>)
         \o (IF o.type = "flow"
             THEN (IF "totalizer1" \notin vk
                   THEN <<Alert("flow has no value key", me, "totalizer1", indent)>>
                   ELSE <<>>)
               \o (IF "volumeflow" \notin vk
                   THEN <<Alert("flow has no value key", me, "volumeflow", indent)>>
                   ELSE IF ~HasLimit(instr, "volumeflow", "upper")
                        THEN <<Alert("flow has no upper threshold", me, "volumeflow", indent)>>
                        ELSE <<>>)
             ELSE <<>>)
         \o (IF o.type \in {"pressure", "analysis"}
             THEN <<Info("Checking thresholds", me, o.type, indent)>>
                  \o CheckThresholds(instr, o.value_keys, indent)
             ELSE <<>>)
         \o (IF o.type = "pump" /\ "individual_pump_on" \notin vk
             THEN <<Alert("pump has no value key", me, "individual_pump_on", indent)>>
             ELSE <<>>)

RECURSIVE CheckInstrumentations(_, _)
CheckInstrumentations(instrs, indent) ==
    IF instrs = <<>> THEN <<>>
    ELSE check_instrumentation(Head(instrs), indent)
         \o CheckInstrumentations(Tail(instrs), indent)

\* nmf_analyzer.check_module
check_module(module, indent) ==
    LET instrs == get_instrumentations(module)
    IN <<Info("Checking instrumentations for module", StrNode(module), "", indent)>>
       \o (IF ~check_non_empty_elems(instrs)
           THEN <<Alert("Module has no instrumentations", StrNode(module), "", indent)>>
           ELSE CheckInstrumentations(instrs, indent + 5)
                \o <<Info("Instrumentations checked.", NoSubj, "", indent)>>)

RECURSIVE CheckModules(_, _)
CheckModules(modules, indent) ==
    IF modules = <<>> THEN <<>>
    ELSE check_module(Head(modules), indent) \o CheckModules(Tail(modules), indent)

\* nmf_analyzer.check_application
check_application(app, indent) ==
    LET modules == get_modules(app)
    IN <<Info("Checking modules for application", StrNode(app), "", indent)>>
       \o (IF ~check_non_empty_elems(modules)
           THEN <<Alert("Application has no modules", StrNode(app), "", indent)>>
           ELSE CheckModules(modules, indent + 5)
                \o <<Info("Modules checked.", NoSubj, "", indent)>>)

RECURSIVE CheckApplications(_, _)
CheckApplications(apps, indent) ==
    IF apps = <<>> THEN <<>>
    ELSE check_application(Head(apps), indent) \o CheckApplications(Tail(apps), indent)

\* check_location without the return that follows the alert.
check_location_falls_through(location, indent) ==
    LET apps == get_applications(location)
    IN <<Info("Checking applications for location", StrNode(location), "", indent)>>
       \o (IF ~check_non_empty_elems(apps)
           THEN <<Alert("Location has no applications", StrNode(location), "", indent)>>
           ELSE <<>>)
       \o CheckApplications(apps, indent + 5)
       \o <<Info("Applications checked.", NoSubj, "", indent)>>

\* nmf_analyzer.check_location
check_location(location, indent) ==
    LET apps == get_applications(location)
    IN <<Info("Checking applications for location", StrNode(location), "", indent)>>
       \o (IF ~check_non_empty_elems(apps)
           THEN <<Alert("Location has no applications", StrNode(location), "", indent)>>
           ELSE CheckApplications(apps, indent + 5)
                \o <<Info("Applications checked.", NoSubj, "", indent)>>)

RECURSIVE CheckLocations(_, _)
CheckLocations(locs, indent) ==
    IF locs = <<>> THEN <<>>
    ELSE check_location(Head(locs), indent) \o CheckLocations(Tail(locs), indent)

\* The print_indent calls of one check_nmf_integrity run started at time now,
\* and whether it left through the early return of line 152.
IntegrityRun(now) ==
    LET indent == 0
        locations == get_locations
        head == << Call([Msg("Checking integrity of NMF hierarchy", NoSubj, "")
                            EXCEPT !.at = now], indent, FALSE),
                   Info("Checking locations ...", NoSubj, "", indent) >>
    IN IF ~check_non_empty_elems(locations)
       THEN [calls |-> head \o <<Alert("No locations found", NoSubj, "", indent)>>,
             early |-> TRUE]
       ELSE [calls |-> head \o CheckLocations(locations, indent + 5)
                            \o << Info("Locations checked.", NoSubj, "", indent),
                                  Info("NMF integrity check completed.", NoSubj, "", indent) >>,
             early |-> FALSE]

\* check_nmf_integrity without its call of reset_output.
check_nmf_integrity_no_reset(po, now) ==
    /\ pc = "built"
    /\ LET run   == IntegrityRun(now)
           lines == [i \in 1..Len(run.calls) |-> print_indent(run.calls[i], po)]
           coll  == IF po THEN _output_lines ELSE _output_lines \o lines
       IN /\ print_output' = po
          /\ _output_lines' = coll
          /\ stdout' = IF po THEN lines ELSE <<>>
          /\ ret' = IF run.early THEN [kind |-> "None", lines |-> <<>>]
                    ELSE [kind |-> "str", lines |-> coll]
    /\ repeated' = (ret.kind # "not called")
    /\ UNCHANGED <<hub, pc, call_stack>>
    /\ UNCHANGED hierarchy_vars
    /\ UNCHANGED values_vars

\* nmf_analyzer.check_nmf_integrity(print_output) called at time now on the
\* analyzer whose hierarchy was built.  It returns None through the early return
\* and get_output() (the collected lines) otherwise.
check_nmf_integrity(po, now) ==
    /\ pc = "built"
    /\ LET run   == IntegrityRun(now)
           lines == [i \in 1..Len(run.calls) |-> print_indent(run.calls[i], po)]
       IN /\ print_output' = po
          /\ _output_lines' = IF po THEN <<>> ELSE lines
          /\ stdout' = IF po THEN lines ELSE <<>>
          /\ ret' = IF run.early THEN [kind |-> "None", lines |-> <<>>]
                    ELSE [kind |-> "str", lines |-> IF po THEN <<>> ELSE lines]
    /\ repeated' = (ret.kind # "not called")
    /\ UNCHANGED <<hub, pc, call_stack>>
    /\ UNCHANGED hierarchy_vars
    /\ UNCHANGED values_vars

-----------------------------------------------------------------------------
(* nmf_analyzer.check_nmf_integrity, call by call.  call_stack holds one frame  *)
(* for every for loop the run is in, the outermost first: [level, elems,        *)
(* indent] is the loop over the locations, applications, modules or             *)
(* instrumentations, the elements it has not yet visited, and the indent it     *)
(* passes to the check of an element.                                           *)

Frame(level, elems, indent) == [level |-> level, elems |-> elems, indent |-> indent]

\* The function a check of one level would call on every subnode below a
\* module, as if modules nested.
Descend_follows_subnodes(level, elem) ==
    IF level = "locations" THEN [level |-> "applications", elems |-> get_applications(elem)]
    ELSE IF level = "applications" THEN [level |-> "modules", elems |-> get_modules(elem)]
    ELSE [level |-> "modules", elems |-> get_modules(elem)]

\* check_location, check_application, check_module (lines 165, 176, 187): the
\* list that the check of elem fetches and the loop it runs over it.
Descend(level, elem) ==
    IF level = "locations" THEN [level |-> "applications", elems |-> get_applications(elem)]
    ELSE IF level = "applications" THEN [level |-> "modules", elems |-> get_modules(elem)]
    ELSE [level |-> "instrumentations", elems |-> get_instrumentations(elem)]

\* The first print_indent call of the check of elem (lines 164, 175, 186).
Opening(level, elem, indent) ==
    IF level = "locations"
    THEN Info("Checking applications for location", StrNode(elem), "", indent)
    ELSE IF level = "applications"
    THEN Info("Checking modules for application", StrNode(elem), "", indent)
    ELSE Info("Checking instrumentations for module", StrNode(elem), "", indent)

\* The alert of check_non_empty_elems in the check of elem (lines 166, 177, 188).
EmptyAlert(level, elem, indent) ==
    IF level = "locations"
    THEN Alert("Location has no applications", StrNode(elem), "", indent)
    ELSE IF level = "applications"
    THEN Alert("Application has no modules", StrNode(elem), "", indent)
    ELSE Alert("Module has no instrumentations", StrNode(elem), "", indent)

\* The print_indent call that follows a for loop (lines 156, 171, 182, 193).
Closing(level, indent) ==
    IF level = "locations" THEN Info("Locations checked.", NoSubj, "", indent)
    ELSE IF level = "applications" THEN Info("Applications checked.", NoSubj, "", indent)
    ELSE IF level = "modules" THEN Info("Modules checked.", NoSubj, "", indent)
    ELSE Info("Instrumentations checked.", NoSubj, "", indent)

\* print_indent for a list of calls: the lines go to stdout or to _output_lines.
Emit(calls) ==
    LET lines == [i \in 1..Len(calls) |-> print_indent(calls[i], print_output)]
    IN /\ _output_lines' = IF print_output THEN _output_lines ELSE _output_lines \o lines
       /\ stdout' = IF print_output THEN stdout \o lines ELSE stdout

\* check_nmf_integrity(print_output) is called at time now: lines 141-153, up to
\* the early return or to the loop over the locations.
enter_check_nmf_integrity(po, now) ==
    /\ pc = "built"
    /\ call_stack = <<>>
    /\ LET locations == get_locations
           head == << Call([Msg("Checking integrity of NMF hierarchy", NoSubj, "")
                               EXCEPT !.at = now], 0, FALSE),
                      Info("Checking locations ...", NoSubj, "", 0) >>
           calls == IF check_non_empty_elems(locations) THEN head
                    ELSE head \o <<Alert("No locations found", NoSubj, "", 0)>>
           lines == [i \in 1..Len(calls) |-> print_indent(calls[i], po)]
       IN /\ print_output' = po
          /\ _output_lines' = IF po THEN <<>> ELSE lines
          /\ stdout' = IF po THEN lines ELSE <<>>
          /\ IF check_non_empty_elems(locations)
             THEN /\ call_stack' = <<Frame("locations", locations, 5)>>
                  /\ ret' = ret
             ELSE /\ call_stack' = <<>>
                  /\ ret' = [kind |-> "None", lines |-> <<>>]
    /\ repeated' = (ret.kind # "not called")
    /\ UNCHANGED <<hub, pc>>
    /\ UNCHANGED hierarchy_vars
    /\ UNCHANGED values_vars

\* One iteration of the innermost for loop: the check of its next element, up to
\* its return or to its own for loop.
visit ==
    /\ call_stack # <<>>
    /\ LET n    == Len(call_stack)
           top  == call_stack[n]
       IN /\ top.elems # <<>>
          /\ LET elem == Head(top.elems)
                 rest == [call_stack EXCEPT ![n].elems = Tail(top.elems)]
             IN IF top.level = "instrumentations"
                THEN /\ Emit(check_instrumentation(elem, top.indent))
                     /\ call_stack' = rest
                ELSE LET d == Descend(top.level, elem)
                     IN IF ~check_non_empty_elems(d.elems)
                        THEN /\ Emit(<< Opening(top.level, elem, top.indent),
                                        EmptyAlert(top.level, elem, top.indent) >>)
                             /\ call_stack' = rest
                        ELSE /\ Emit(<<Opening(top.level, elem, top.indent)>>)
                             /\ call_stack' = Append(rest, Frame(d.level, d.elems, top.indent + 5))
    /\ UNCHANGED <<hub, pc, print_output, ret, repeated>>
    /\ UNCHANGED hierarchy_vars
    /\ UNCHANGED values_vars

\* The innermost for loop is exhausted: the line after it, and the return of
\* the check it belongs to; check_nmf_integrity returns get_output() (line 160).
leave ==
    /\ call_stack # <<>>
    /\ LET n   == Len(call_stack)
           top == call_stack[n]
       IN /\ top.elems = <<>>
          /\ call_stack' = SubSeq(call_stack, 1, n - 1)
          /\ IF n = 1
             THEN /\ Emit(<< Closing(top.level, top.indent - 5),
                             Info("NMF integrity check completed.", NoSubj, "", 0) >>)
                  /\ ret' = [kind |-> "str", lines |-> _output_lines']
             ELSE /\ Emit(<<Closing(top.level, top.indent - 5)>>)
                  /\ ret' = ret
    /\ UNCHANGED <<hub, pc, print_output, repeated>>
    /\ UNCHANGED hierarchy_vars
    /\ UNCHANGED values_vars

-----------------------------------------------------------------------------
(* Results of the operations on values, before any of them was called *)

\* A hub that holds no latest values, no series and no pages.  latest maps an
\* instrumentation id to the values of instrumentations/{id}/values, series maps
\* <<id, key>> to the data of instrumentations/{id}/values/{key}, pages is the
\* chain of pages of one paginated command.
NoValues == [latest |-> <<>>, series |-> <<>>, pages |-> <<>>]

\* at is the clock reading of the call, kept beside the lists it returned.
NoGroups ==
    [kind |-> "not called", at |-> None, i_24 |-> <<>>, i_24_72 |-> <<>>, i_72 |-> <<>>]

NoTimeseries ==
    [state |-> "none", raised |-> "none", instrumentation |-> NoneRef,
     value_keys |-> <<>>, requested |-> <<>>, values |-> EmptyDict,
     dataframes |-> EmptyDict, end_str |-> None]

NoGrouped == [kind |-> "not called", keys_24 |-> <<>>, keys_24_72 |-> <<>>, keys_72 |-> <<>>]

-----------------------------------------------------------------------------
(* Hub calls.  A call is [verb, path, id, key]: the HTTP verb, the kind of       *)
(* resource the command addresses, and the id and value key the command names.  *)

HubCall(verb, path, id, key) == [verb |-> verb, path |-> path, id |-> id, key |-> key]

-----------------------------------------------------------------------------
(* nmf_analyzer.group_instr_by_latest_values (lines 236-279).  Time is counted  *)
(* in seconds; now is what the clock of the analyzer reads when an instrumen-   *)
(* tation is grouped, and the hub's timestamps are instants on the same scale.  *)

\* pd.Timedelta(hours=h)
Timedelta(hours) == hours * 3600

\* self.hub.call_hub(cmd="instrumentations/{id}/values").get("values", [])
LatestValues(id) ==
    IF id \in DOMAIN hub_values.latest THEN hub_values.latest[id] ELSE <<>>

\* [pd.to_datetime(v.get("timestamp")) for v in latest_values if v.get("timestamp")]
latest_timestamps(latest_values) ==
    LET Stamped(v) == v.timestamp # None
        stamped == SelectSeq(latest_values, Stamped)
    IN [i \in 1..Len(stamped) |-> stamped[i].timestamp]

\* max() of a non-empty list
Max(seq) == CHOOSE m \in Range(seq) : \A x \in Range(seq) : x <= m

\* The list that lines 272-277 append to.
BucketOf(age) ==
    IF age < Timedelta(24) THEN "i_24"
    ELSE IF age < Timedelta(72) THEN "i_24_72"
    ELSE "i_72"

\* The loop of lines 254-277: acc is [kind, i_24, i_24_72, i_72, calls]; max() of
\* an empty list raises ValueError and ends the call.
RECURSIVE GroupLoop(_, _, _)
GroupLoop(instrs, now, acc) ==
    IF instrs = <<>> THEN acc
    ELSE LET instr == Head(instrs)
             called == [acc EXCEPT !.calls = Append(@, HubCall("GET", "instrumentations/values",
                                                               instr_obj[instr].id, ""))]
             latest_values == LatestValues(instr_obj[instr].id)
             stamps == latest_timestamps(latest_values)
         IN IF latest_values = <<>> THEN GroupLoop(Tail(instrs), now, called)
            ELSE IF stamps = <<>> THEN [called EXCEPT !.kind = "ValueError"]
            ELSE LET latest_instr_ts == Max(stamps)
                     age == now - latest_instr_ts
                     b == BucketOf(age)
                 IN GroupLoop(Tail(instrs), now,
                              [called EXCEPT ![b] = Append(@, <<instr, latest_instr_ts>>)])

\* nmf_analyzer.group_instr_by_latest_values() called when the clock reads now.
\* An exception leaves the caller without the three lists.
group_instr_by_latest_values(now) ==
    /\ pc = "built"
    /\ LET start == [kind |-> "returned", i_24 |-> <<>>, i_24_72 |-> <<>>, i_72 |-> <<>>,
                     calls |-> <<>>]
           r == GroupLoop(DictValues(nmf_instrumentations), now, start)
       IN /\ groups' = IF r.kind = "returned"
                       THEN [kind |-> "returned", at |-> now, i_24 |-> r.i_24,
                             i_24_72 |-> r.i_24_72, i_72 |-> r.i_72]
                       ELSE [NoGroups EXCEPT !.kind = r.kind, !.at = now]
          /\ hub_calls' = r.calls
    /\ UNCHANGED <<hub, pc, hub_values, ts, grouped, next_url, all_results, pag_pc>>
    /\ UNCHANGED hierarchy_vars
    /\ UNCHANGED analyzer_vars

-----------------------------------------------------------------------------
(* Timeseries (timeseries.py).  ts is the object the caller holds: state says  *)
(* whether the constructor returned one, raised and requested are the outcome  *)
(* and the value_keys argument of the last retrieve_timeseries call.  When the *)
(* constructor raises, the caller holds no object and ts records the attempt.  *)
(* A DataFrame is the list of the timestamps in its index.                     *)

\* value_keys=None, where a list of keys is expected
NoneList == <<NoneStr>>

\* Timeseries.get_timeseries_data (lines 82-91).  Line 91 calls
\* call_hub_pagination(cmd=cmd, response_key="data"); the parameters of
\* hub_connector.call_hub_pagination (hub_connector.py line 143) are cmd and
\* next_key, so the call raises TypeError before call_hub_pagination runs and
\* before any hub call.
get_timeseries_data(value_key) == [raised |-> "TypeError", data |-> <<>>]

\* The loop of lines 51-79.  Its first statement raises, so lines 54-79 run for
\* no key.
RetrieveLoop(obj, keys_to_retrieve) ==
    IF keys_to_retrieve = <<>> THEN [raised |-> "none", obj |-> obj]
    ELSE [raised |-> get_timeseries_data(Head(keys_to_retrieve)).raised, obj |-> obj]

\* retrieve_timeseries without the check for invalid keys (lines 38-41).
RetrieveTimeseries_unchecked(obj, value_keys, now) ==
    LET all_keys == instr_obj[obj.instrumentation].value_keys
        keys_to_retrieve == IF value_keys = NoneList THEN all_keys ELSE value_keys
    IN RetrieveLoop([obj EXCEPT !.end_str = now, !.dataframes = EmptyDict], keys_to_retrieve)

\* Timeseries.retrieve_timeseries (lines 24-79) on the object obj when the clock
\* reads now: what it raises and the object as it leaves it.
RetrieveTimeseries(obj, value_keys, now) ==
    LET all_keys == instr_obj[obj.instrumentation].value_keys
        Invalid(k) == k \notin Range(all_keys)
        invalid_keys == IF value_keys = NoneList THEN <<>> ELSE SelectSeq(value_keys, Invalid)
        keys_to_retrieve == IF value_keys = NoneList THEN all_keys ELSE value_keys
    IN IF invalid_keys # <<>> THEN [raised |-> "ValueError", obj |-> obj]
       ELSE RetrieveLoop([obj EXCEPT !.end_str = now, !.dataframes = EmptyDict],
                         keys_to_retrieve)

\* Timeseries(instrumentation, hub, value_keys=value_keys): __init__ and
\* __post_init__ (lines 21-22).
Timeseries(instrumentation, value_keys, now) ==
    /\ pc = "built"
    /\ LET new == [NoTimeseries EXCEPT !.instrumentation = instrumentation,
                                       !.value_keys = value_keys,
                                       !.requested = value_keys]
           r == RetrieveTimeseries(new, value_keys, now)
       IN ts' = IF r.raised = "none"
                THEN [r.obj EXCEPT !.state = "constructed"]
                ELSE [new EXCEPT !.raised = r.raised]
    /\ hub_calls' = <<>>
    /\ UNCHANGED <<hub, pc, hub_values, groups, grouped, next_url, all_results, pag_pc>>
    /\ UNCHANGED hierarchy_vars
    /\ UNCHANGED analyzer_vars

\* retrieve_timeseries(value_keys) called on the object the caller holds.
retrieve_timeseries(value_keys, now) ==
    /\ pc = "built"
    /\ ts.state = "constructed"
    /\ LET r == RetrieveTimeseries(ts, value_keys, now)
       IN ts' = [r.obj EXCEPT !.raised = r.raised, !.requested = value_keys]
    /\ hub_calls' = <<>>
    /\ UNCHANGED <<hub, pc, hub_values, groups, grouped, next_url, all_results, pag_pc>>
    /\ UNCHANGED hierarchy_vars
    /\ UNCHANGED analyzer_vars

\* The list that lines 116-121 append to.
KeyBucketOf(age) ==
    IF age > Timedelta(72) THEN "keys_72"
    ELSE IF age > Timedelta(24) THEN "keys_24_72"
    ELSE "keys_24"

\* The loop of lines 106-121 over self.dataframes.items().
RECURSIVE GroupKeys(_, _, _, _)
GroupKeys(keys, dataframes, now, acc) ==
    IF keys = <<>> THEN acc
    ELSE LET key == Head(keys)
             df == dataframes.val[key]
         IN IF df = <<>>
            THEN GroupKeys(Tail(keys), dataframes, now, [acc EXCEPT !.keys_72 = Append(@, key)])
            ELSE LET latest == Max(df)
                     age == now - latest
                     b == KeyBucketOf(age)
                 IN GroupKeys(Tail(keys), dataframes, now, [acc EXCEPT ![b] = Append(@, key)])

\* Timeseries.get_grouped_value_keys (lines 93-127) on the object the caller holds.
get_grouped_value_keys ==
    /\ pc = "built"
    /\ ts.state = "constructed"
    /\ grouped' = GroupKeys(ts.dataframes.keys, ts.dataframes, ts.end_str,
                            [NoGrouped EXCEPT !.kind = "returned"])
    /\ UNCHANGED <<hub, pc, hub_values, groups, ts, hub_calls, next_url, all_results, pag_pc>>
    /\ UNCHANGED hierarchy_vars
    /\ UNCHANGED analyzer_vars

-----------------------------------------------------------------------------
(* NMFinstrumentation.delete_value_key (NMFhierarchy.py lines 240-252).  What  *)
(* the hub does with a DELETE is not part of the repository; the operation     *)
(* assigns to no field of the instrumentation.                                 *)

\* The loop of lines 247-251: one DELETE per element of self.assets.
DeleteCalls(as, key) ==
    [i \in 1..Len(as) |-> HubCall("DELETE", "assets/values", asset_obj[as[i]].id, key)]

\* delete_value_key without the check of lines 243-245.
delete_value_key_unguarded(instr, key) ==
    /\ pc = "built"
    /\ instr \in Range(DictValues(nmf_instrumentations))
    /\ hub_calls' = DeleteCalls(instr_obj[instr].assets, key)
    /\ UNCHANGED <<hub, pc, hub_values, groups, ts, grouped, next_url, all_results, pag_pc>>
    /\ UNCHANGED hierarchy_vars
    /\ UNCHANGED analyzer_vars

\* instr.delete_value_key(key, hub)
delete_value_key(instr, key) ==
    /\ pc = "built"
    /\ instr \in Range(DictValues(nmf_instrumentations))
    /\ hub_calls' = IF key \notin Range(instr_obj[instr].value_keys) THEN <<>>
                    ELSE DeleteCalls(instr_obj[instr].assets, key)
    /\ UNCHANGED <<hub, pc, hub_values, groups, ts, grouped, next_url, all_results, pag_pc>>
    /\ UNCHANGED hierarchy_vars
    /\ UNCHANGED analyzer_vars

-----------------------------------------------------------------------------
(* hub_connector.call_hub_pagination (hub_connector.py lines 143-167).  A URL  *)
(* is the position of the page it addresses in hub_values.pages; a page is     *)
(* [has_key, records, next]: whether the response holds next_key, the records  *)
(* under it, and pagination.next (None when the page names no next page).      *)

\* response.get(next_key) or []
PageRecords(response) == IF response.has_key THEN response.records ELSE <<>>

\* Lines 151-155: the call with the command that addresses the first page.
call_hub_pagination ==
    /\ pag_pc = "idle"
    /\ hub_values.pages # <<>>
    /\ next_url' = 1
    /\ all_results' = <<>>
    /\ hub_calls' = <<>>
    /\ pag_pc' = "loop"
    /\ UNCHANGED <<hub, pc, hub_values, groups, ts, grouped>>
    /\ UNCHANGED hierarchy_vars
    /\ UNCHANGED analyzer_vars

\* One pass of the loop with the page's records replacing the results so far.
next_page_overwrites ==
    /\ pag_pc = "loop"
    /\ next_url # None
    /\ LET response == hub_values.pages[next_url]
       IN /\ hub_calls' = Append(hub_calls, HubCall("GET", "page", next_url, ""))
          /\ all_results' = PageRecords(response)
          /\ next_url' = response.next
    /\ UNCHANGED <<hub, pc, hub_values, groups, ts, grouped, pag_pc>>
    /\ UNCHANGED hierarchy_vars
    /\ UNCHANGED analyzer_vars

\* One pass of the loop of lines 157-165.
next_page ==
    /\ pag_pc = "loop"
    /\ next_url # None
    /\ LET response == hub_values.pages[next_url]
       IN /\ hub_calls' = Append(hub_calls, HubCall("GET", "page", next_url, ""))
          /\ all_results' = all_results \o PageRecords(response)
          /\ next_url' = response.next
    /\ UNCHANGED <<hub, pc, hub_values, groups, ts, grouped, pag_pc>>
    /\ UNCHANGED hierarchy_vars
    /\ UNCHANGED analyzer_vars

\* The loop ends (line 157) and all_results is returned (line 167).
return_all_results ==
    /\ pag_pc = "loop"
    /\ next_url = None
    /\ pag_pc' = "returned"
    /\ UNCHANGED <<hub, pc, hub_values, groups, ts, grouped, hub_calls, next_url, all_results>>
    /\ UNCHANGED hierarchy_vars
    /\ UNCHANGED analyzer_vars

-----------------------------------------------------------------------------
(* What the hub may return: bounded sets of paginated responses *)

MaxNodes == 2

MaxInstrs == 2

\* Hub ids of the node records; MaxNodes itself is an id no record has.
NodeIds == 0..(MaxNodes - 1)

InstrIds == 0..(MaxInstrs - 1)

AssetIds == {0, 1}

Perms(S) == {p \in [1..Cardinality(S) -> S] : \A i, j \in 1..Cardinality(S) : i # j => p[i] # p[j]}

NodeTypeOf(id) == IF id = 0 THEN "location" ELSE IF id = 1 THEN "water_abstraction" ELSE "module"

NodeRecord(id, type, parent_id, instrs) ==
    [id |-> id, type |-> type, parent_id |-> parent_id, instrumentations |-> instrs]

InstrRecord(id, type, as, pk, vks, ths) ==
    [id |-> id, type |-> type, assets |-> as, specifications |-> pk,
     value_keys |-> vks, thresholds |-> ths]

\* Lists without repetition of at most n elements of S.
ListsUpTo(S, n) == UNION { Perms(T) : T \in {T \in SUBSET S : Cardinality(T) <= n} }

\* Node records for linking: any parent id (none, own, another node's, unknown)
\* and instrumentation ids that the instrumentation response may or may not hold.
LinkNode(id, x) == NodeRecord(id, NodeTypeOf(id), x[1], x[2])

LinkNodePayloads == ({None} \cup (0..MaxNodes)) \X {<<>>, <<0>>, <<0, 1>>}

\* Instrumentation records for linking: up to two assets each, shared or not.
LinkInstr(id, as) == InstrRecord(id, "flow", as, NoneStr, <<>>, <<>>)

LinkInstrPayloads == ListsUpTo(AssetIds, 2)

FewInstrResponses ==
    { <<LinkInstr(0, <<0>>)>>,
      <<LinkInstr(1, <<0, 1>>), LinkInstr(0, <<1>>)>> }

FewNodeResponses ==
    { <<LinkNode(0, <<None, <<0>>>>), LinkNode(1, <<0, <<0>>>>)>>,
      <<LinkNode(1, <<0, <<>>>>), LinkNode(0, <<None, <<>>>>)>> }

\* The hubs of the linking specification: every node response with a few
\* instrumentation responses, and every instrumentation response with a few
\* node responses.
LinkHub(h) ==
    \/ \E i \in FewInstrResponses :
         \E S \in SUBSET NodeIds : \E p \in Perms(S) : \E f \in [S -> LinkNodePayloads] :
            h = [nodes |-> [k \in 1..Cardinality(S) |-> LinkNode(p[k], f[p[k]])],
                 instrumentations |-> i]
    \/ \E n \in FewNodeResponses :
         \E S \in SUBSET InstrIds : \E p \in Perms(S) : \E f \in [S -> LinkInstrPayloads] :
            h = [nodes |-> n,
                 instrumentations |-> [k \in 1..Cardinality(S) |-> LinkInstr(p[k], f[p[k]])]]

\* Hubs for the integrity check.
CheckNodeIds == {0, 1, 2}

NodeTypes == {"location", "water_abstraction", "module"}

InstrTypes == {"flow", "pressure", "analysis", "pump", "undefined", "level"}

ValueKeys == {"totalizer1", "volumeflow", "individual_pump_on"}

ThresholdRecords ==
    { [key |-> k, name |-> "hi", threshold_type |-> t, value |-> 10] :
        k \in {"totalizer1", "volumeflow"}, t \in {"upper", "lower"} }

SortedSeq(S) == CHOOSE p \in Perms(S) : \A i, j \in 1..Cardinality(S) : i < j => p[i] < p[j]

CheckInstr(id, x) == InstrRecord(id, x[1], x[2][1], x[2][2], x[3], x[4])

\* type; (assets, primary value key); value keys; threshold records
CheckInstrPayloads ==
    InstrTypes \X {<<<<0>>, "volumeflow">>, <<<<0>>, NoneStr>>, <<<<>>, NoneStr>>}
    \X ListsUpTo(ValueKeys, 2) \X ListsUpTo(ThresholdRecords, 2)

\* location 0 > application 1 > module 2, which holds instrumentation 0
ChainResponse ==
    << NodeRecord(0, "location", None, <<>>),
       NodeRecord(1, "water_distribution", 0, <<>>),
       NodeRecord(2, "module", 1, <<0>>) >>

FlowResponse ==
    << InstrRecord(0, "flow", <<0>>, "volumeflow", <<"volumeflow">>,
                   <<[key |-> "volumeflow", name |-> "hi", threshold_type |-> "lower",
                      value |-> 10]>>) >>

\* Every typing and every parent chain (well formed or not) of three nodes that
\* all list the one instrumentation or all list none, every instrumentation
\* record under one chain of nodes, and the hub of one location and nothing else.
CheckHub(h) ==
    \/ \E f \in [CheckNodeIds -> NodeTypes \X ({None} \cup CheckNodeIds)] :
          \E il \in {<<>>, <<0>>} :
             h = [nodes |-> [k \in 1..3 |-> NodeRecord(k - 1, f[k - 1][1], f[k - 1][2], il)],
                  instrumentations |-> FlowResponse]
    \/ \E x \in CheckInstrPayloads :
          h = [nodes |-> ChainResponse, instrumentations |-> <<CheckInstr(0, x)>>]
    \/ h = [nodes |-> <<NodeRecord(0, "location", None, <<>>)>>, instrumentations |-> <<>>]

\* Hubs for a second clone_hierarchy call on the same NMFhierarchy.
RecloneNode(id, x) == NodeRecord(id, "location", x[1], x[2])

RecloneHub(h) ==
    \E S \in SUBSET {0, 1} : \E f \in [S -> ({None, 0, 1}) \X {<<>>, <<0>>}] :
        \E i \in {<<>>, <<LinkInstr(0, <<>>)>>, <<LinkInstr(0, <<0>>)>>} :
            h = [nodes |-> [k \in 1..Cardinality(S) |-> RecloneNode(SortedSeq(S)[k], f[SortedSeq(S)[k]])],
                 instrumentations |-> i]

-----------------------------------------------------------------------------
(* Hubs for the operations on values *)

\* location 0 > application 1 > module 2, which holds instrumentations 0 and 1
ValuesNodes ==
    << NodeRecord(0, "location", None, <<>>),
       NodeRecord(1, "water_distribution", 0, <<>>),
       NodeRecord(2, "module", 1, <<0, 1>>) >>

\* Instrumentation 0 declares two value keys, instrumentation 1 declares none.
ValuesResponse ==
    << InstrRecord(0, "flow", <<0>>, "volumeflow", <<"volumeflow", "totalizer1">>, <<>>),
       InstrRecord(1, "pump", <<0, 1>>, NoneStr, <<>>, <<>>) >>

\* The clock readings of the calls: 72 hours after instant 0, and a second later.
Nows == {Timedelta(72), Timedelta(72) + 1}

\* Instants that are 72 hours, 24 hours, and a second more or less, before them.
Stamps == {0, 1, Timedelta(48) - 1, Timedelta(48), Timedelta(48) + 1}

\* A measurement point; timestamp None is a point without a timestamp.
Value(t) == [timestamp |-> t, value |-> 1]

LatestLists ==
    {<<>>} \cup {<<Value(t)>> : t \in Stamps \cup {None}}
    \cup { <<Value(0), Value(Timedelta(48))>>, <<Value(Timedelta(48)), Value(0)>>,
           <<Value(None), Value(1)>> }

FewLatestLists == {<<>>, <<Value(None)>>, <<Value(Timedelta(48))>>}

SeriesLists == {<<>>, <<Value(Timedelta(48))>>}

RecencyHub(h, v) ==
    /\ h = [nodes |-> ValuesNodes, instrumentations |-> ValuesResponse]
    /\ \E l0 \in LatestLists, l1 \in FewLatestLists, s \in SeriesLists :
          v = [latest |-> [i \in {0, 1} |-> IF i = 0 THEN l0 ELSE l1],
               series |-> [p \in {<<0, "volumeflow">>} |-> s],
               pages  |-> <<>>]

\* The value_keys arguments of the Timeseries calls.
KeyArguments ==
    {NoneList, <<>>, <<"volumeflow">>, <<"volumeflow", "individual_pump_on">>}

\* Two instrumentations with any assets and a few lists of value keys.
DeleteInstr(id, x) == InstrRecord(id, "flow", x[1], NoneStr, x[2], <<>>)

DeleteInstrPayloads ==
    ListsUpTo(AssetIds, 2) \X {<<>>, <<"volumeflow">>, <<"totalizer1", "volumeflow">>}

DeleteHub(h) ==
    \E f \in [{0, 1} -> DeleteInstrPayloads] :
        h = [nodes |-> ValuesNodes,
             instrumentations |-> <<DeleteInstr(0, f[0]), DeleteInstr(1, f[1])>>]

\* Hubs for the traversal: location 0 and two nodes of any type, under every
\* choice of parent ids (self-parents and cycles included), all listing the one
\* instrumentation or none.
TraversalHub(h) ==
    \E t \in [{1, 2} -> NodeTypes] : \E f \in [CheckNodeIds -> {None} \cup CheckNodeIds] :
       \E il \in {<<>>, <<0>>} :
          h = [nodes |-> [k \in 1..3 |->
                            NodeRecord(k - 1, IF k = 1 THEN "location" ELSE t[k - 1],
                                       f[k - 1], il)],
               instrumentations |-> FlowResponse]

\* Chains of pages: every page but the last may or may not name the page after it.
MaxPages == 3

PageRecordLists == {<<>>, <<0>>, <<0, 1>>, <<1, 0>>}

PageContents ==
    {[has_key |-> FALSE, records |-> <<>>]}
    \cup {[has_key |-> TRUE, records |-> r] : r \in PageRecordLists}

PagesHub(v) ==
    \E n \in 1..MaxPages : \E c \in [1..n -> PageContents] : \E more \in [1..n -> BOOLEAN] :
        /\ ~more[n]
        /\ v = [latest |-> <<>>, series |-> <<>>,
                pages |-> [i \in 1..n |-> [has_key |-> c[i].has_key,
                                           records |-> c[i].records,
                                           next    |-> IF more[i] THEN i + 1 ELSE None]]]

-----------------------------------------------------------------------------
(* Specifications *)

\* The state as NMFhierarchy.__init__ (called by nmf_analyzer.__init__) leaves it
\* just before its call of clone_hierarchy, whatever the hub holds.
InitRest ==
    /\ pc = "clone_hierarchy"
    /\ clones = 1
    /\ nodes = EmptyDict
    /\ instrumentations = EmptyDict
    /\ assets = EmptyDict
    /\ nmf_nodes = EmptyDict
    /\ nmf_instrumentations = EmptyDict
    /\ nmf_assets = EmptyDict
    /\ node_obj = <<>>
    /\ instr_obj = <<>>
    /\ asset_obj = <<>>
    /\ _output_lines = <<>>
    /\ print_output = FALSE
    /\ stdout = <<>>
    /\ ret = [kind |-> "not called", lines |-> <<>>]
    /\ repeated = FALSE
    /\ call_stack = <<>>
    /\ groups = NoGroups
    /\ ts = NoTimeseries
    /\ grouped = NoGrouped
    /\ hub_calls = <<>>
    /\ next_url = None
    /\ all_results = <<>>
    /\ pag_pc = "idle"

Init == LinkHub(hub) /\ hub_values = NoValues /\ InitRest

Next ==
    \/ get_node_info
    \/ get_instrumentation_info
    \/ create_nmf_objects
    \/ create_links

Spec == Init /\ [][Next]_vars

\* The analyzer: the hierarchy is built, then integrity checks are run on it.
Times == {0, 1}

InitCheck == CheckHub(hub) /\ hub_values = NoValues /\ InitRest

NextCheck ==
    \/ get_node_info
    \/ get_instrumentation_info
    \/ create_nmf_objects
    \/ create_links
    \/ \E po \in BOOLEAN, now \in Times : check_nmf_integrity(po, now)

SpecCheck == InitCheck /\ [][NextCheck]_vars

\* A caller that calls clone_hierarchy again on the NMFhierarchy it holds, after
\* the hub's content changed.
MaxClones == 2

clone_hierarchy ==
    /\ pc \in {"built", "KeyError", "AttributeError"}
    /\ clones >= 2 \/ pc = "built"
    /\ clones < MaxClones
    /\ RecloneHub(hub')
    /\ clones' = clones + 1
    /\ pc' = "clone_hierarchy"
    /\ UNCHANGED <<nodes, instrumentations, assets, nmf_nodes, nmf_instrumentations,
                   nmf_assets, node_obj, instr_obj, asset_obj>>
    /\ UNCHANGED analyzer_vars
    /\ UNCHANGED values_vars

InitReclone == RecloneHub(hub) /\ hub_values = NoValues /\ InitRest

NextReclone ==
    \/ get_node_info
    \/ get_instrumentation_info
    \/ create_nmf_objects
    \/ create_links
    \/ clone_hierarchy

SpecReclone == InitReclone /\ [][NextReclone]_vars

\* The analyzer groups the instrumentations by their latest values, and a caller
\* creates and uses a Timeseries, at any of the clock readings.
InitRecency == RecencyHub(hub, hub_values) /\ InitRest

NextRecency ==
    \/ get_node_info
    \/ get_instrumentation_info
    \/ create_nmf_objects
    \/ create_links
    \/ \E now \in Nows : group_instr_by_latest_values(now)
    \/ \E instrumentation \in Range(DictValues(nmf_instrumentations)) :
          \E value_keys \in KeyArguments, now \in Nows :
             Timeseries(instrumentation, value_keys, now)
    \/ \E value_keys \in KeyArguments, now \in Nows : retrieve_timeseries(value_keys, now)
    \/ get_grouped_value_keys

SpecRecency == InitRecency /\ [][NextRecency]_vars

\* The integrity check call by call, on hierarchies with and without cycles.
InitTraversal == TraversalHub(hub) /\ hub_values = NoValues /\ InitRest

NextTraversal ==
    \/ get_node_info
    \/ get_instrumentation_info
    \/ create_nmf_objects
    \/ create_links
    \/ \E po \in BOOLEAN, now \in Times : enter_check_nmf_integrity(po, now)
    \/ visit
    \/ leave

SpecTraversal == InitTraversal /\ [][NextTraversal]_vars

\* A call in progress goes on: the interpreter runs the loops to their end.
FairTraversal == SpecTraversal /\ WF_vars(visit) /\ WF_vars(leave)

\* A caller deletes value keys of the instrumentations of the built hierarchy.
InitDelete == DeleteHub(hub) /\ hub_values = NoValues /\ InitRest

NextDelete ==
    \/ get_node_info
    \/ get_instrumentation_info
    \/ create_nmf_objects
    \/ create_links
    \/ \E instr \in Range(DictValues(nmf_instrumentations)) : \E key \in ValueKeys :
          delete_value_key(instr, key)

SpecDelete == InitDelete /\ [][NextDelete]_vars

\* One paginated call on the hub connector, before any hierarchy is built.
InitPagination ==
    /\ hub = [nodes |-> <<>>, instrumentations |-> <<>>]
    /\ PagesHub(hub_values)
    /\ InitRest

NextPagination ==
    \/ call_hub_pagination
    \/ next_page
    \/ return_all_results

SpecPagination == InitPagination /\ [][NextPagination]_vars

-----------------------------------------------------------------------------
(* Claims about the hierarchy that NMFhierarchy.__init__ builds *)

Built == pc = "built"

\* clone_hierarchy has returned or raised.
Finished == pc \in {"built", "KeyError", "AttributeError"}

FetchedNodeIds == {hub.nodes[i].id : i \in 1..Len(hub.nodes)}

FetchedInstrIds == {hub.instrumentations[i].id : i \in 1..Len(hub.instrumentations)}

\* Some fetched node record lists an instrumentation id no fetched
\* instrumentation record has.
DanglingInstrId ==
    \E i \in 1..Len(hub.nodes) :
        \E j \in 1..Len(hub.nodes[i].instrumentations) :
            hub.nodes[i].instrumentations[j] \notin FetchedInstrIds

RegistryNodes == Range(DictValues(nmf_nodes))

RegistryInstrs == Range(DictValues(nmf_instrumentations))

RegistryAssets == Range(DictValues(nmf_assets))

Subnodes(B) == Range(node_obj[B].subnodes)

\* C1 as the spec states it: once the hierarchy is built, a node that is in the
\* subnodes list of a node B has B, the node object, as its parent.
C1_ParentIsParentNode ==
    Built => \A B \in DOMAIN node_obj : \A A \in Subnodes(B) : node_obj[A].parent = B

\* C2: once the hierarchy is built, an asset is in an instrumentation's assets
\* list exactly when that instrumentation is in the asset's instrumentations list.
C2_AssetEdgesMirrored ==
    Built => \A I \in DOMAIN instr_obj : \A A \in DOMAIN asset_obj :
                (A \in Range(instr_obj[I].assets)) <=> (I \in Range(asset_obj[A].instrumentations))

\* An asset shared by two instrumentations, one of which has two assets.
C2_Witness ==
    /\ Built
    /\ \E A \in DOMAIN asset_obj : Cardinality(Range(asset_obj[A].instrumentations)) = 2
    /\ \E I \in DOMAIN instr_obj : Cardinality(Range(instr_obj[I].assets)) = 2

\* C3 as the spec states it: once the hierarchy is built, an instrumentation is
\* in a node's instrumentations list exactly when the node is in the
\* instrumentation's nodes list.
C3_NodeEdgesMirrored ==
    Built => \A N \in DOMAIN node_obj : \A I \in DOMAIN instr_obj :
                (I \in Range(node_obj[N].instrumentations)) <=> (N \in Range(instr_obj[I].nodes))

\* C4: when a fetched node record lists an instrumentation id that no fetched
\* instrumentation record has, the construction ends in the KeyError and no
\* hierarchy is obtained; a hierarchy that is built holds, for every node, one
\* instrumentation object per listed id, in the listed order.
C4_MissingInstrumentationFails ==
    /\ (Finished /\ DanglingInstrId) => pc = "KeyError"
    /\ pc = "KeyError" => ret.kind = "not called"
    /\ Built => \A i \in 1..Len(hub.nodes) :
                   LET N == nmf_nodes.val[hub.nodes[i].id]
                       ids == hub.nodes[i].instrumentations
                   IN /\ Len(node_obj[N].instrumentations) = Len(ids)
                      /\ \A j \in 1..Len(ids) :
                            /\ node_obj[N].instrumentations[j] \in DOMAIN instr_obj
                            /\ RefId(node_obj[N].instrumentations[j]) = ids[j]

C4_Witness == pc = "KeyError" /\ DanglingInstrId /\ Len(hub.nodes) = 2

\* The fetched parent id of a node record does not resolve.
Unresolved(rec) == rec.parent_id = None \/ rec.parent_id \notin FetchedNodeIds

\* C5: a node whose fetched parent id is null or is no fetched node's id is in no
\* subnodes list once the hierarchy is built, and the construction raises an
\* error only for a missing instrumentation id, never for the parent id.
C5_UnresolvedParentIsRoot ==
    /\ Built => \A i \in 1..Len(hub.nodes) :
                   Unresolved(hub.nodes[i]) =>
                       \A B \in DOMAIN node_obj : nmf_nodes.val[hub.nodes[i].id] \notin Subnodes(B)
    /\ (Finished /\ ~DanglingInstrId) => Built

\* Built from two nodes: one with an unknown parent id, one with a parent.
C5_Witness ==
    /\ Built
    /\ \E i \in 1..Len(hub.nodes) : hub.nodes[i].parent_id = MaxNodes
    /\ \E B \in DOMAIN node_obj : Subnodes(B) # {}

\* The links of the built hierarchy, as pairs of hub ids.
Links ==
    [subnodes |-> UNION {{<<RefId(B), RefId(A)>> : A \in Subnodes(B)} : B \in RegistryNodes},
     node_instr |-> UNION {{<<RefId(N), RefId(I)>> : I \in Range(node_obj[N].instrumentations)}
                           : N \in RegistryNodes},
     instr_asset |-> UNION {{<<RefId(I), RefId(A)>> : A \in Range(instr_obj[I].assets)}
                            : I \in RegistryInstrs},
     asset_instr |-> UNION {{<<RefId(A), RefId(I)>> : I \in Range(asset_obj[A].instrumentations)}
                            : A \in RegistryAssets}]

\* The links that the set of fetched records asks for, whatever their order.
LinksOfRecords ==
    LET N == Range(hub.nodes)
        I == Range(hub.instrumentations)
    IN [subnodes |-> {<<n.parent_id, n.id>> : n \in {n \in N : n.parent_id \in FetchedNodeIds}},
        node_instr |-> UNION {{<<n.id, x>> : x \in Range(n.instrumentations)} : n \in N},
        instr_asset |-> UNION {{<<i.id, a>> : a \in Range(i.assets)} : i \in I},
        asset_instr |-> UNION {{<<a, i.id>> : a \in Range(i.assets)} : i \in I}]

\* No object of the running clone has a link yet.
NoLinksYet ==
    /\ \A N \in RegistryNodes : node_obj[N].subnodes = <<>> /\ node_obj[N].instrumentations = <<>>
    /\ \A A \in RegistryAssets : asset_obj[A].instrumentations = <<>>

\* C7: the links of the built hierarchy are those of the set of fetched records,
\* in whatever order the hub returned them, and when the linking starts every
\* fetched id is in its registry and no link exists.
C7_LinksIndependentOfOrder ==
    /\ Built => Links = LinksOfRecords
    /\ pc = "objects_created" =>
          /\ DictKeySet(nmf_nodes) = FetchedNodeIds
          /\ DictKeySet(nmf_instrumentations) = FetchedInstrIds
          /\ DictKeySet(nmf_assets) =
                 UNION {Range(hub.instrumentations[i].assets) : i \in 1..Len(hub.instrumentations)}
          /\ NoLinksYet

\* Built from a response that lists a child before its parent.
C7_Witness ==
    /\ Built
    /\ \E i, j \in 1..Len(hub.nodes) : i < j /\ hub.nodes[i].parent_id = hub.nodes[j].id
    /\ Links.node_instr # {}

\* B is reachable from A by one or more subnodes links.
RECURSIVE Descendants(_, _)
Descendants(frontier, seen) ==
    LET next == UNION {Subnodes(x) : x \in frontier} \ seen
    IN IF next = {} THEN seen ELSE Descendants(next, seen \cup next)

\* C9 as the spec states it: once the hierarchy is built, no node is reachable
\* from itself by following subnodes links.
C9_NoCycle ==
    Built => \A N \in DOMAIN node_obj : N \notin Descendants({N}, {})

-----------------------------------------------------------------------------
(* Claims checked on the analyzer's hierarchies *)

\* The positions of the threshold records of key k, and the j-th of them.
KeyPositions(ths, k) == {i \in 1..Len(ths) : ths[i].key = k}

NthPosition(P, j) == CHOOSE i \in P : Cardinality({x \in P : x <= i}) = j

\* C6: the thresholds mapping of every instrumentation object has exactly the
\* declared value keys as keys, and under each key the (name, kind, value)
\* triples of the fetched threshold records of that key, in their order.
C6_ThresholdGroupingTotal ==
    \A I \in DOMAIN instr_obj :
        RefId(I) \in DictKeySet(instrumentations) =>
            LET rec == instrumentations.val[RefId(I)]
                th  == instr_obj[I].thresholds
            IN /\ DictKeySet(th) = Range(rec.value_keys)
               /\ \A k \in DictKeySet(th) :
                     LET P == KeyPositions(rec.thresholds, k)
                     IN /\ Len(th.val[k]) = Cardinality(P)
                        /\ \A j \in 1..Len(th.val[k]) :
                              LET t == rec.thresholds[NthPosition(P, j)]
                              IN th.val[k][j] = <<t.name, t.threshold_type, t.value>>

\* Two declared keys, one with a threshold and one without, and a threshold
\* record of an undeclared key.
C6_Witness ==
    \E I \in DOMAIN instr_obj :
        LET th == instr_obj[I].thresholds
        IN /\ Cardinality(DictKeySet(th)) = 2
           /\ \E k \in DictKeySet(th) : th.val[k] = <<>>
           /\ \E k \in DictKeySet(th) : th.val[k] # <<>>
           /\ \E i \in 1..Len(instrumentations.val[RefId(I)].thresholds) :
                 instrumentations.val[RefId(I)].thresholds[i].key \notin DictKeySet(th)

\* The report of the last check_nmf_integrity call, printed or collected.
Report == IF print_output THEN stdout ELSE _output_lines

Called == ret.kind # "not called"

IsAlert(line) == line.prefix # ""

AlertCount(report) == Cardinality({i \in 1..Len(report) : IsAlert(report[i])})

HasLocation == \E N \in RegistryNodes : node_obj[N].type = "location"

\* C10: check_nmf_integrity returns early exactly when the hierarchy has no node
\* of type "location"; then the report is the two opening lines and the one
\* alert, and names no element; otherwise the report ends with the
\* "Locations checked." and "NMF integrity check completed." lines.
C10_EarlyStopOnlyWithoutLocations ==
    Called =>
        /\ pc = "built"
        /\ (ret.kind = "None") <=> ~HasLocation
        /\ ret.kind = "None" =>
              /\ Len(Report) = 3
              /\ AlertCount(Report) = 1
              /\ IsAlert(Report[3]) /\ Report[3].msg.t = "No locations found"
              /\ \A i \in 1..Len(Report) : Report[i].msg.subj = NoSubj
        /\ ret.kind # "None" =>
              /\ ret.kind = "str"
              /\ Len(Report) >= 5
              /\ Report[Len(Report)].msg.t = "NMF integrity check completed."
              /\ Report[Len(Report) - 1].msg.t = "Locations checked."
              /\ ~IsAlert(Report[Len(Report)]) /\ Report[Len(Report)].indent = 0

\* An early stop on a hierarchy that has nodes, none of them a location.
C10_Witness == ret.kind = "None" /\ RegistryNodes # {} /\ Len(Report) = 3

\* A completed run that reported findings below a location.
C10_WitnessCompleted == ret.kind = "str" /\ AlertCount(Report) >= 2

-----------------------------------------------------------------------------
(* Claims about what the integrity report says of empty levels *)

\* The registered node that a report line names.
NodeOfLine(line) == nmf_nodes.val[line.msg.subj[2]]

\* The three levels with children: the line that opens the check of an element,
\* the alert for an element without children, and the line that closes the list
\* the element belongs to.
Levels ==
    { [head  |-> "Checking applications for location",
       alert |-> "Location has no applications",
       close |-> "Locations checked."],
      [head  |-> "Checking modules for application",
       alert |-> "Application has no modules",
       close |-> "Applications checked."],
      [head  |-> "Checking instrumentations for module",
       alert |-> "Module has no instrumentations",
       close |-> "Modules checked."] }

ChildrenAt(lv, r) ==
    IF lv.head = "Checking applications for location" THEN get_applications(r)
    ELSE IF lv.head = "Checking modules for application" THEN get_modules(r)
    ELSE get_instrumentations(r)

\* Line i opens the check of an element that has no children at level lv.
EmptyVisit(i, lv) ==
    /\ Report[i].msg.t = lv.head
    /\ ChildrenAt(lv, NodeOfLine(Report[i])) = <<>>

\* Every element without children gets its one alert, on the line after the one
\* that opens it, and the line after the alert opens the next sibling or closes
\* the list of siblings: nothing is nested below the element.
EmptyLevelsReported ==
    \A i \in 1..Len(Report) : \A lv \in Levels :
        EmptyVisit(i, lv) =>
            /\ i + 2 <= Len(Report)
            /\ IsAlert(Report[i + 1])
            /\ Report[i + 1].msg.t = lv.alert
            /\ Report[i + 1].msg.subj = Report[i].msg.subj
            /\ Report[i + 1].indent = Report[i].indent
            /\ ~IsAlert(Report[i + 2])
            /\ \/ /\ Report[i + 2].msg.t = lv.head
                  /\ Report[i + 2].indent = Report[i].indent
               \/ /\ Report[i + 2].msg.t = lv.close
                  /\ Report[i + 2].indent = Report[i].indent - 5

\* The hierarchy has one location, and that location has no applications.
OneBareLocation ==
    /\ Len(get_locations) = 1
    /\ get_applications(get_locations[1]) = <<>>

\* The run went through to its last line, so no error ended it.
RanToCompletion ==
    /\ ret.kind = "str"
    /\ Report[Len(Report)].msg.t = "NMF integrity check completed."

\* C11 as the spec states it: an element without children gets exactly one
\* alert and nothing nested, the check goes on with the next sibling, and the
\* report on one location without applications has exactly one alert and ends
\* with the line "Locations checked.".
C11_ReportEndsWithLocationsChecked ==
    (Called /\ HasLocation) =>
        /\ EmptyLevelsReported
        /\ OneBareLocation =>
              /\ AlertCount(Report) = 1
              /\ Report[Len(Report)].msg.t = "Locations checked."

\* C11 amended: as above, but "Locations checked." is the last line but one of
\* the report; the last line is "NMF integrity check completed.".
C11_EmptyLevelGetsOneAlert ==
    (Called /\ HasLocation) =>
        /\ EmptyLevelsReported
        /\ RanToCompletion
        /\ OneBareLocation =>
              /\ AlertCount(Report) = 1
              /\ Len(Report) = 6
              /\ Report[Len(Report) - 1].msg.t = "Locations checked."

\* The hub holds one node, a location, and the check reported on it.
C11_Witness ==
    /\ Called
    /\ Len(nmf_nodes.keys) = 1
    /\ OneBareLocation
    /\ \E i \in 1..Len(Report) : EmptyVisit(i, CHOOSE lv \in Levels : lv.close = "Locations checked.")

\* A location without applications was reported, and the check went on with
\* the location after it.
C11_WitnessSibling ==
    /\ Called
    /\ \E i \in 1..(Len(Report) - 2) :
          /\ Report[i + 1].msg.t = "Location has no applications"
          /\ Report[i + 2].msg.t = "Checking applications for location"

-----------------------------------------------------------------------------
(* Claims about the alerts on an instrumentation *)

\* The alerts that name instrumentation r, as pairs <<text, key>>, in report order.
InstrAlerts(r) ==
    LET About(line) == IsAlert(line) /\ line.msg.subj = StrInstr(r)
        lines == SelectSeq(Report, About)
    IN [i \in 1..Len(lines) |-> <<lines[i].msg.t, lines[i].msg.arg>>]

\* How often the run called check_instrumentation on r: once per report line that
\* opens a module listing r.
Visits(r) ==
    Cardinality({i \in 1..Len(Report) :
                    /\ Report[i].msg.t = "Checking instrumentations for module"
                    /\ r \in Range(get_instrumentations(NodeOfLine(Report[i])))})

Count(seq, x) == Cardinality({i \in 1..Len(seq) : seq[i] = x})

When(cond, S) == IF cond THEN S ELSE {}

\* thresholds[k] of instrumentation r holds no triple of that kind.
NoTriple(r, k, kind) ==
    LET th == instr_obj[r].thresholds
    IN ~DictHas(th, k) \/ \A j \in 1..Len(th.val[k]) : th.val[k][j][2] # kind

KindAlert(kind) == IF kind = "upper" THEN "no upper threshold" ELSE "no lower threshold"

\* The (key, kind) pairs of instrumentation r that lack a threshold.
MissingPairs(r) ==
    {p \in Range(instr_obj[r].value_keys) \X {"upper", "lower"} : NoTriple(r, p[1], p[2])}

\* The checks that fail on an instrumentation with assets, as the alerts they ask for.
FailingChecks(r) ==
    LET o  == instr_obj[r]
        vk == Range(o.value_keys)
    IN When(o.type = "undefined", {<<"has type undefined", "">>})
       \cup When(o.primary_val_key = NoneStr, {<<"has no primary value key", "">>})
       \cup When(o.value_keys = <<>>, {<<"has no value keys", "">>})
       \cup When(o.type = "flow",
                 {<<"flow has no value key", k>> : k \in {"totalizer1", "volumeflow"} \ vk}
                 \cup When("volumeflow" \in vk /\ NoTriple(r, "volumeflow", "upper"),
                           {<<"flow has no upper threshold", "volumeflow">>}))
       \cup When(o.type \in {"pressure", "analysis"},
                 {<<KindAlert(p[2]), p[1]>> : p \in MissingPairs(r)})
       \cup When(o.type = "pump" /\ "individual_pump_on" \notin vk,
                 {<<"pump has no value key", "individual_pump_on">>})

Reached(r) == Visits(r) > 0

\* C12: an instrumentation without assets gets the one alert "has no assets"
\* per visit whatever else is wrong with it; an instrumentation with assets gets,
\* per visit, one alert for each failing check and no other alert.
C12_AlertsAreTheFailingChecks ==
    Called =>
        \A r \in RegistryInstrs :
            Reached(r) =>
                IF get_assets(r) = <<>>
                THEN InstrAlerts(r) = [v \in 1..Visits(r) |-> <<"has no assets", "">>]
                ELSE /\ Range(InstrAlerts(r)) = FailingChecks(r)
                     /\ Len(InstrAlerts(r)) = Visits(r) * Cardinality(FailingChecks(r))

\* An instrumentation with assets fails the three general checks and a
\* type-specific one at once, and is reported for all four.
C12_Witness ==
    /\ Called
    /\ \E r \in RegistryInstrs :
          /\ Reached(r)
          /\ get_assets(r) # <<>>
          /\ instr_obj[r].type = "pump"
          /\ instr_obj[r].primary_val_key = NoneStr
          /\ instr_obj[r].value_keys = <<>>
          /\ Len(InstrAlerts(r)) = 3

\* An instrumentation without assets and with nothing else right got one alert.
C12_WitnessNoAssets ==
    /\ Called
    /\ \E r \in RegistryInstrs :
          /\ Reached(r)
          /\ get_assets(r) = <<>>
          /\ instr_obj[r].type = "undefined"
          /\ InstrAlerts(r) = <<<<"has no assets", "">>>>

\* C13: for a flow instrumentation with assets, the alert for a missing
\* "totalizer1" is there iff the key is not declared, the alert for a missing
\* "volumeflow" iff that key is not declared, and the alert for the missing upper
\* threshold iff "volumeflow" is declared and has no threshold of kind "upper".
C13_FlowChecks ==
    Called =>
        \A r \in RegistryInstrs :
            (Reached(r) /\ instr_obj[r].type = "flow" /\ get_assets(r) # <<>>) =>
                LET vk == Range(instr_obj[r].value_keys)
                    Has(t, k) == <<t, k>> \in Range(InstrAlerts(r))
                IN /\ Has("flow has no value key", "totalizer1") <=> "totalizer1" \notin vk
                   /\ Has("flow has no value key", "volumeflow") <=> "volumeflow" \notin vk
                   /\ Has("flow has no upper threshold", "volumeflow")
                        <=> ("volumeflow" \in vk /\ NoTriple(r, "volumeflow", "upper"))

\* A flow instrumentation that declares only "totalizer1" is reported for the
\* missing "volumeflow" and not for an upper threshold.
C13_Witness ==
    /\ Called
    /\ \E r \in RegistryInstrs :
          /\ Reached(r)
          /\ instr_obj[r].type = "flow"
          /\ get_assets(r) # <<>>
          /\ instr_obj[r].value_keys = <<"totalizer1">>
          /\ <<"flow has no value key", "volumeflow">> \in Range(InstrAlerts(r))
          /\ <<"flow has no upper threshold", "volumeflow">> \notin Range(InstrAlerts(r))

\* A flow instrumentation that declares "volumeflow" with a lower threshold only
\* is reported for the missing upper threshold.
C13_WitnessThreshold ==
    /\ Called
    /\ \E r \in RegistryInstrs :
          /\ instr_obj[r].type = "flow"
          /\ ~NoTriple(r, "volumeflow", "lower")
          /\ <<"flow has no upper threshold", "volumeflow">> \in Range(InstrAlerts(r))

\* C14: for a pressure or analysis instrumentation with assets, each declared
\* key gets one alert per visit for each kind of threshold it lacks and none for
\* a kind it has, so the threshold alerts are as many as the missing pairs.
C14_ThresholdAlertPerMissingKind ==
    Called =>
        \A r \in RegistryInstrs :
            (Reached(r) /\ instr_obj[r].type \in {"pressure", "analysis"} /\ get_assets(r) # <<>>) =>
                LET th == SelectSeq(InstrAlerts(r),
                                    LAMBDA a : a[1] \in {"no upper threshold", "no lower threshold"})
                IN /\ \A k \in Range(instr_obj[r].value_keys) : \A kind \in {"upper", "lower"} :
                        Count(th, <<KindAlert(kind), k>>)
                            = IF NoTriple(r, k, kind) THEN Visits(r) ELSE 0
                   /\ Len(th) = Visits(r) * Cardinality(MissingPairs(r))

\* A pressure instrumentation whose one key has an upper threshold only is
\* reported for the lower threshold and not for the upper one.
C14_Witness ==
    /\ Called
    /\ \E r \in RegistryInstrs :
          /\ Reached(r)
          /\ instr_obj[r].type = "pressure"
          /\ get_assets(r) # <<>>
          /\ instr_obj[r].value_keys = <<"volumeflow">>
          /\ ~NoTriple(r, "volumeflow", "upper")
          /\ NoTriple(r, "volumeflow", "lower")
          /\ Count(InstrAlerts(r), <<"no lower threshold", "volumeflow">>) = 1
          /\ Count(InstrAlerts(r), <<"no upper threshold", "volumeflow">>) = 0

-----------------------------------------------------------------------------
(* Claims about running the integrity check again *)

\* The report without the time that its first line names.
WithoutTime(report) == [i \in 1..Len(report) |-> [report[i] EXCEPT !.msg.at = None]]

\* C15 as the spec states it: the report of a run equals the report of the run
\* before it, and the run changes nothing in the hierarchy.
C15_SecondReportIdentical ==
    [][(Called /\ repeated' /\ print_output' = print_output) =>
          /\ Report' = Report
          /\ hierarchy_vars' = hierarchy_vars]_vars

\* C15 amended: the two reports are equal but for the time their first line
\* names (so they are equal when that time is the same), and the run changes
\* nothing in the hierarchy.
C15_SecondReportIdenticalButTime ==
    [][(Called /\ repeated' /\ print_output' = print_output) =>
          /\ WithoutTime(Report') = WithoutTime(Report)
          /\ Report'[1].msg.at = Report[1].msg.at => Report' = Report /\ ret' = ret
          /\ hierarchy_vars' = hierarchy_vars]_vars

\* The state after a second run that found something to report.
C15_Witness == Called /\ repeated /\ AlertCount(Report) >= 1

-----------------------------------------------------------------------------
(* Claims about the termination of the integrity check *)

\* The report of a finished run is the report of check_nmf_integrity taken as
\* one step, and so is what the run returned.
CallByCallAgrees ==
    (call_stack = <<>> /\ Called) =>
        LET run   == IntegrityRun(Report[1].msg.at)
            lines == [i \in 1..Len(run.calls) |-> print_indent(run.calls[i], print_output)]
        IN /\ Report = lines
           /\ ret = IF run.early THEN [kind |-> "None", lines |-> <<>>]
                    ELSE [kind |-> "str", lines |-> IF print_output THEN <<>> ELSE lines]

\* C23: a check_nmf_integrity call in progress is never more than four loops
\* deep (locations, applications, modules, instrumentations) and always comes
\* to its return, on hierarchies whose subnodes links have a self-loop or a
\* cycle as on the others.
C23_IntegrityCheckTerminates ==
    /\ [](Len(call_stack) <= 4)
    /\ (call_stack # <<>>) ~> (call_stack = <<>> /\ ret.kind = "str")

\* A run returned after it went round a cycle of subnodes links: it checked the
\* location again, as a module of its own application, and stopped there.
C23_Witness ==
    /\ call_stack = <<>>
    /\ ret.kind = "str"
    /\ \E N \in RegistryNodes :
          /\ node_obj[N].type = "location"
          /\ N \in Descendants({N}, {})
          /\ \E i \in 1..Len(Report) :
                /\ Report[i].msg.t = "Checking instrumentations for module"
                /\ Report[i].msg.subj = StrNode(N)

\* A run returned on a hierarchy where a node is its own subnode.
C23_WitnessSelfLoop ==
    /\ call_stack = <<>>
    /\ ret.kind = "str"
    /\ \E N \in RegistryNodes : N \in Subnodes(N)

-----------------------------------------------------------------------------
(* Claims about the grouping by recency *)

InList(r, list) == \E i \in 1..Len(list) : list[i][1] = r

\* The timestamps among the latest values the hub holds for instrumentation r.
LatestStamps(r) == latest_timestamps(LatestValues(instr_obj[r].id))

Declared(r) == instr_obj[r].value_keys

\* The series the hub holds for one value key of one instrumentation.
SeriesOf(id, key) ==
    IF <<id, key>> \in DOMAIN hub_values.series THEN hub_values.series[<<id, key>>] ELSE <<>>

\* A Timeseries call was made, for an instrumentation and keys it declares.
ValidRequest ==
    /\ ts.instrumentation # NoneRef
    /\ ts.requested # NoneList => Range(ts.requested) \subseteq Range(Declared(ts.instrumentation))

\* The keys that the last Timeseries call asked for.
RequestedKeys ==
    IF ts.requested = NoneList THEN Range(Declared(ts.instrumentation)) ELSE Range(ts.requested)

\* What get_grouped_value_keys returns for the object as it is.
GroupedNow ==
    GroupKeys(ts.dataframes.keys, ts.dataframes, ts.end_str,
              [NoGrouped EXCEPT !.kind = "returned"])

\* After a call of group_instr_by_latest_values, an instrumentation whose latest
\* timestamp has age a is in the first list iff a < 24h, in the second iff
\* 24h <= a < 72h, in the third iff a >= 72h.
C16_AnalyzerPart ==
    groups.kind # "not called" =>
        \A r \in RegistryInstrs :
            LatestStamps(r) # <<>> =>
                LET a == groups.at - Max(LatestStamps(r))
                IN /\ InList(r, groups.i_24) <=> a < Timedelta(24)
                   /\ InList(r, groups.i_24_72) <=> (Timedelta(24) <= a /\ a < Timedelta(72))
                   /\ InList(r, groups.i_72) <=> a >= Timedelta(72)

\* After a Timeseries was asked for a declared key whose series has a latest
\* timestamp of age a, the caller holds the object and its grouping has the key
\* in the group of a, with the same boundaries.
C16_TimeseriesPart ==
    ValidRequest =>
        \A k \in RequestedKeys :
            LET stamps == latest_timestamps(SeriesOf(instr_obj[ts.instrumentation].id, k))
            IN stamps # <<>> =>
                 /\ ts.state = "constructed"
                 /\ ts.raised = "none"
                 /\ LET a == ts.end_str - Max(stamps)
                    IN /\ k \in Range(GroupedNow.keys_24) <=> a < Timedelta(24)
                       /\ k \in Range(GroupedNow.keys_24_72)
                            <=> (Timedelta(24) <= a /\ a < Timedelta(72))
                       /\ k \in Range(GroupedNow.keys_72) <=> a >= Timedelta(72)

\* C16 as the spec states it: both groupings put an item whose latest timestamp
\* has age a into exactly one group, fresh iff a < 24h, aging iff
\* 24h <= a < 72h, stale iff a >= 72h.
C16_SameBoundaries == C16_AnalyzerPart /\ C16_TimeseriesPart

\* An instrumentation for which the hub returned no point is in none of the
\* three lists.
C17_AnalyzerPart ==
    groups.kind = "returned" =>
        \A r \in RegistryInstrs :
            LatestValues(instr_obj[r].id) = <<>> =>
                ~(InList(r, groups.i_24) \/ InList(r, groups.i_24_72) \/ InList(r, groups.i_72))

\* After a Timeseries was asked for a declared key whose series is empty, the
\* caller holds the object and its grouping has the key in "72h+" and in no
\* other group.
C17_TimeseriesPart ==
    ValidRequest =>
        \A k \in RequestedKeys :
            SeriesOf(instr_obj[ts.instrumentation].id, k) = <<>> =>
                /\ ts.state = "constructed"
                /\ ts.raised = "none"
                /\ k \in Range(GroupedNow.keys_72)
                /\ k \notin Range(GroupedNow.keys_24) \cup Range(GroupedNow.keys_24_72)

\* C17 as the spec states it: no points means no list in the grouping of
\* instrumentations, and the group "72h+" in the grouping of value keys.
C17_EmptySeriesIsStaleOrAbsent == C17_AnalyzerPart /\ C17_TimeseriesPart

-----------------------------------------------------------------------------
(* Claims about Timeseries and its value keys *)

\* The value_keys argument names a key that the instrumentation does not declare.
HasInvalidKey(t) ==
    /\ t.instrumentation # NoneRef
    /\ t.requested # NoneList
    /\ ~(Range(t.requested) \subseteq Range(Declared(t.instrumentation)))

\* C18: a Timeseries call (creation or retrieve_timeseries) whose value_keys
\* holds an undeclared key raises ValueError, issues no hub call, and leaves
\* values, dataframes and the times of the object as they were (a failed
\* creation leaves no object).
C18_InvalidKeyRejectedFirst ==
    [][(ts' # ts /\ HasInvalidKey(ts')) =>
          /\ ts'.raised = "ValueError"
          /\ hub_calls' = <<>>
          /\ IF ts'.state = "constructed"
             THEN /\ ts.state = "constructed"
                  /\ ts'.instrumentation = ts.instrumentation
                  /\ ts'.values = ts.values
                  /\ ts'.dataframes = ts.dataframes
                  /\ ts'.end_str = ts.end_str
             ELSE /\ ts'.values = EmptyDict
                  /\ ts'.dataframes = EmptyDict]_vars

\* A creation was refused for a list that holds a declared and an undeclared key.
C18_Witness ==
    /\ ts.state = "none"
    /\ ts.raised = "ValueError"
    /\ ts.requested = <<"volumeflow", "individual_pump_on">>
    /\ "volumeflow" \in Range(Declared(ts.instrumentation))

\* retrieve_timeseries was refused on an object the caller holds.
C18_WitnessRetrieve == ts.state = "constructed" /\ ts.raised = "ValueError"

\* C21 as the spec states it: creating a Timeseries with value_keys None or a
\* list of declared keys raises nothing, issues one fetch per requested key, in
\* the order of the keys, and leaves an entry for every requested key in values
\* and in dataframes.
C21_CreationFetchesEveryKey ==
    [][\A I \in RegistryInstrs : \A value_keys \in KeyArguments : \A now \in Nows :
          (/\ Timeseries(I, value_keys, now)
           /\ value_keys # NoneList => Range(value_keys) \subseteq Range(Declared(I))) =>
              LET keys == IF value_keys = NoneList THEN Declared(I) ELSE value_keys
              IN /\ ts'.raised = "none"
                 /\ ts'.state = "constructed"
                 /\ Len(hub_calls') = Len(keys)
                 /\ \A i \in 1..Len(keys) :
                       /\ hub_calls'[i].verb = "GET"
                       /\ hub_calls'[i].id = instr_obj[I].id
                       /\ hub_calls'[i].key = keys[i]
                 /\ \A k \in Range(keys) :
                       DictHas(ts'.values, k) /\ DictHas(ts'.dataframes, k)]_vars

-----------------------------------------------------------------------------
(* Claims about delete_value_key *)

\* C19 as the spec states it: after delete_value_key(key) on an instrumentation
\* that declares key, its value_keys no longer hold key, and the value_keys of
\* every other instrumentation are as before.
C19_DeletedKeyLeavesValueKeys ==
    [][\A I \in RegistryInstrs : \A key \in ValueKeys :
          (delete_value_key(I, key) /\ key \in Range(Declared(I))) =>
              /\ key \notin Range(instr_obj'[I].value_keys)
              /\ \A J \in RegistryInstrs \ {I} :
                    instr_obj'[J].value_keys = instr_obj[J].value_keys]_vars

-----------------------------------------------------------------------------
(* Claims about paginated calls *)

\* The position of the first page that names no next page.
FirstLast ==
    CHOOSE i \in 1..Len(hub_values.pages) :
        /\ hub_values.pages[i].next = None
        /\ \A j \in 1..(i - 1) : hub_values.pages[j].next # None

\* The records under the result key of pages 1..n, in page order.
RECURSIVE RecordsUpTo(_)
RecordsUpTo(n) ==
    IF n = 0 THEN <<>>
    ELSE RecordsUpTo(n - 1)
         \o (IF hub_values.pages[n].has_key THEN hub_values.pages[n].records ELSE <<>>)

\* C20: while call_hub_pagination runs it has called pages 1..k once each, in
\* order, holds their records in that order, and goes on to page k + 1 or stops;
\* it stops right after the first page that names no next page and returns the
\* records of all pages up to that one.
C20_OneCallPerPageAllRecords ==
    LET k == Len(hub_calls)
    IN /\ pag_pc \in {"loop", "returned"} =>
            /\ k <= FirstLast
            /\ hub_calls = [i \in 1..k |-> HubCall("GET", "page", i, "")]
            /\ all_results = RecordsUpTo(k)
            /\ next_url = IF k = 0 THEN 1 ELSE hub_values.pages[k].next
       /\ pag_pc = "loop" => ENABLED (next_page \/ return_all_results)
       /\ pag_pc = "returned" => k = FirstLast

\* The call returned after two pages of a chain of three whose second page
\* names no next page, with the records of both.
C20_Witness ==
    /\ pag_pc = "returned"
    /\ Len(hub_values.pages) = 3
    /\ Len(hub_calls) = 2
    /\ Len(hub_values.pages[1].records) = 2
    /\ all_results = hub_values.pages[1].records \o hub_values.pages[2].records
    /\ hub_values.pages[2].records = <<1, 0>>

-----------------------------------------------------------------------------
(* Claims about a second clone_hierarchy call *)

FetchedAssetIds ==
    UNION {Range(hub.instrumentations[i].assets) : i \in 1..Len(hub.instrumentations)}

\* Objects constructed by the clone_hierarchy run that built the hierarchy.
Current(r) == r[2] = clones

\* C8 as the spec states it: after every clone_hierarchy call the registries
\* hold exactly the entities of the latest fetch, and no link of a registered
\* entity refers to an object of an earlier clone.
C8_NothingSurvivesRebuild ==
    Built =>
        /\ DictKeySet(nmf_nodes) = FetchedNodeIds
        /\ DictKeySet(nmf_instrumentations) = FetchedInstrIds
        /\ DictKeySet(nmf_assets) = FetchedAssetIds
        /\ \A N \in RegistryNodes :
              /\ Current(N)
              /\ \A x \in Subnodes(N) \cup Range(node_obj[N].instrumentations) : Current(x)
        /\ \A I \in RegistryInstrs : Current(I) /\ \A x \in Range(instr_obj[I].assets) : Current(x)
        /\ \A A \in RegistryAssets :
              Current(A) /\ \A x \in Range(asset_obj[A].instrumentations) : Current(x)

====
